---- MODULE Spec2Model ----
(***************************************************************************)
(* VORACLE web client: the report page (app/report/[team]/page.tsx), the   *)
(* useReport hook, the API client and the report's chart components,       *)
(* modelled as state machines over the React state they keep.              *)
(*                                                                         *)
(* Numbers: a rate is an exact fraction [num, den]; a fraction with        *)
(* den = 0 stands for the JavaScript value of 0/0 (NaN).  Double rounding  *)
(* is not modelled: the thresholds the code compares against (0.55, 0.45)  *)
(* are compared exactly.                                                   *)
(***************************************************************************)
EXTENDS Integers, Sequences, FiniteSets, TLC

VARIABLES
    \* ReportPage state (page.tsx 42-48)
    teamName, report, loading, error, apiStatus, useLiveData,
    \* requests of the page that have not settled yet, and how many loads ran
    inflight, loadCount, healthInflight,
    \* what the last render of a report section computed
    mapSection, trendSection, prevTrendSection, detailSection, insightSection,
    \* a component that calls the useReport hook: its props, the hook's
    \* state and the hook's requests that have not settled yet
    \* (NotRendered where the report page is what the application renders)
    hook,
    \* one report generation of the server's insight engine: its input and
    \* what it has computed so far (Idle where none is modelled)
    engine,
    \* components rendered on their own: the StatusPanel, the TeamSearch of
    \* the home page and a ChecklistBlock (NotRendered where not modelled)
    statusPanel, teamSearch, checklist

pageVars == <<teamName, report, loading, error, apiStatus, useLiveData>>
netVars  == <<inflight, loadCount, healthInflight>>
viewVars == <<mapSection, trendSection, prevTrendSection, detailSection,
             insightSection>>
widgetVars == <<statusPanel, teamSearch, checklist>>
vars     == <<pageVars, netVars, viewVars, hook, engine, widgetVars>>

-----------------------------------------------------------------------------
(* Bounds of the model *)

MaxMaps == 2
\* service checks of a StatusPanel
MaxChecks == 3
\* teams in a response of GET /team/popular
MaxTeams == 2
\* items of a ChecklistBlock, and clicks on it
MaxItems == 3
MaxClicks == 4

-----------------------------------------------------------------------------
(* Values *)

\* null / undefined of an object-valued state or field
Null == [absent |-> TRUE]
\* null of the string-valued error state
NoError == "<null>"
\* a present optional value (a field that may be undefined in the JSON)
Some(v) == [value |-> v]
\* a section that was not rendered yet
NotRendered == [rendered |-> FALSE]
\* no report generation
Idle == [phase |-> "idle"]

Frac(n, d) == [num |-> n, den |-> d]
IsNaN(a) == a.den = 0
\* a > b, a >= b, a <= b on numbers; any comparison with NaN is false
FracGT(a, b) == ~IsNaN(a) /\ ~IsNaN(b) /\ a.num * b.den > b.num * a.den
FracGE(a, b) == ~IsNaN(a) /\ ~IsNaN(b) /\ a.num * b.den >= b.num * a.den
FracLE(a, b) == ~IsNaN(a) /\ ~IsNaN(b) /\ a.num * b.den <= b.num * a.den
FracEQ(a, b) == ~IsNaN(a) /\ ~IsNaN(b) /\ a.num * b.den = b.num * a.den
Sign(n) == IF n > 0 THEN 1 ELSE IF n < 0 THEN -1 ELSE 0
Abs(n) == IF n < 0 THEN -n ELSE n
\* sign of a - b for two numbers that are not NaN
FracCmp(a, b) == Sign(a.num * b.den - b.num * a.den)

\* Array.prototype.sort: stable.  cmp[j, i] is the comparator's result on
\* (s[j], s[i]), a consistent order.  Element i goes after every element that
\* compares lower, and after every element that compares equal and stood
\* before it.
StableSort(s, cmp) ==
    LET n == Len(s)
        Rank(i) == Cardinality({j \in 1..n :
                        \/ cmp[j, i] < 0
                        \/ cmp[j, i] = 0 /\ j < i})
    IN  [k \in 1..n |-> s[CHOOSE i \in 1..n : Rank(i) = k - 1]]

-----------------------------------------------------------------------------
(* Map analysis: MapBarChart, MapVetoGrid, MapVetoSummary *)

MapNames == <<"Ascent", "Bind", "Haven", "Split">>
GamesChoices == {1, 2, 3, 20}

\* the thresholds of the map-veto recommendation
PickThreshold == Frac(55, 100)
BanThreshold == Frac(45, 100)
Half == Frac(1, 2)

\* MapStats of the report (types/report.ts 76-84)
MapStatsOf(name, games, wins) ==
    [map_name |-> name, games |-> games, wins |-> wins,
     losses |-> games - wins, win_rate |-> Frac(wins, games)]

\* The server's map-veto classification (the rule engine is not part of the
\* client sources): LOW_SAMPLE below 3 games, else by the thresholds.
ClassifyMapVeto(games, win_rate) ==
    IF games < 3 THEN "LOW_SAMPLE"
    ELSE IF FracGE(win_rate, PickThreshold) THEN "PICK"
    ELSE IF FracLE(win_rate, BanThreshold) THEN "BAN"
    ELSE "NEUTRAL"

\* MapVeto of the report (types/report.ts 67-74) for one map
MapVetoOf(s) ==
    [map_name |-> s.map_name,
     recommendation |-> ClassifyMapVeto(s.games, s.win_rate),
     win_rate |-> s.win_rate, games |-> s.games, wins |-> s.wins]

\* mutant: the PICK and BAN comparisons strict
DeriveRecommendationStrict(s) ==
    IF FracGT(s.win_rate, PickThreshold) THEN "PICK"
    ELSE IF FracGT(BanThreshold, s.win_rate) THEN "BAN"
    ELSE "NEUTRAL"

\* MapBarChart.tsx 45: the recommendation derived from a MapStats entry
DeriveRecommendation(s) ==
    IF FracGE(s.win_rate, PickThreshold) THEN "PICK"
    ELSE IF FracLE(s.win_rate, BanThreshold) THEN "BAN"
    ELSE "NEUTRAL"

\* MapBarChart.tsx 49: (a, b) => b.winRate - a.winRate
ByWinRateDesc(a, b) == FracCmp(b.winRate, a.winRate)

\* MapBarChart.tsx 32-49: the chart's data, sorted by win rate descending
MapBarChartData(veto, stats) ==
    LET fromVeto == [i \in 1..Len(veto) |->
            [name |-> veto[i].map_name, winRate |-> veto[i].win_rate,
             games |-> veto[i].games, wins |-> veto[i].wins,
             recommendation |-> veto[i].recommendation]]
        fromStats == [i \in 1..Len(stats) |->
            [name |-> stats[i].map_name, winRate |-> stats[i].win_rate,
             games |-> stats[i].games, wins |-> stats[i].wins,
             recommendation |-> DeriveRecommendation(stats[i])]]
        data == IF Len(veto) > 0 THEN fromVeto ELSE fromStats
    IN  StableSort(data, [j \in DOMAIN data, i \in DOMAIN data |->
                                ByWinRateDesc(data[j], data[i])])

\* MapBarChart.tsx 93: the 'No map data available' card
MapBarChartEmpty(veto, stats) == Len(MapBarChartData(veto, stats)) = 0

\* MapPerformance 16: (a, b) => b.games - a.games
ByGamesDesc(a, b) == b.games - a.games

\* mutant: the sort runs on the prop itself, maps.sort(...)
MapPerformanceInPlace(maps) ==
    LET sorted == StableSort(maps, [j \in DOMAIN maps, i \in DOMAIN maps |->
                                        ByGamesDesc(maps[j], maps[i])])
    IN  [sortedMaps |-> sorted, maps |-> sorted]

\* MapPerformance 14-35: [...maps].sort(...) sorts a copy in place; the
\* rows shown, and the prop's array after the render
MapPerformance(maps) ==
    LET copy == maps
        sorted == StableSort(copy, [j \in DOMAIN copy, i \in DOMAIN copy |->
                                        ByGamesDesc(copy[j], copy[i])])
    IN  [sortedMaps |-> sorted, maps |-> maps]

\* MapVetoCard 115-118: priority[recommendation] || 0
VetoPriority(rec) ==
    CASE rec = "BAN" -> 3
      [] rec = "PICK" -> 2
      [] rec = "NEUTRAL" -> 1
      [] OTHER -> 0

\* |win_rate - 0.5|
DistanceFromHalf(w) == Frac(Abs(2 * w.num - w.den), 2 * w.den)

\* MapVetoCard 116-121: the comparator of MapVetoGrid
ByVetoPriority(a, b) ==
    LET pa == VetoPriority(a.recommendation)
        pb == VetoPriority(b.recommendation)
    IN  IF pa # pb THEN pb - pa
        ELSE FracCmp(DistanceFromHalf(b.win_rate), DistanceFromHalf(a.win_rate))

\* MapVetoCard 113-130: one card per element of sortedVetos
MapVetoGrid(vetos) ==
    StableSort(vetos, [j \in DOMAIN vetos, i \in DOMAIN vetos |->
                            ByVetoPriority(vetos[j], vetos[i])])

IsBan(v) == v.recommendation = "BAN"
IsPick(v) == v.recommendation = "PICK"

\* MapVetoCard 133-135
MapVetoSummary(vetos) ==
    [bans |-> SelectSeq(vetos, IsBan), picks |-> SelectSeq(vetos, IsPick)]

-----------------------------------------------------------------------------
(* The report (types/report.ts 115-130), with the fields the client reads *)

Teams == {"Cloud9", "Sentinels"}

\* a report of the server for `team` from data source `source` with no
\* matches: every metric array empty, no insights
EmptyReport(team, source) ==
    [generated_at |-> "2026-01-29T12:00:00",
     side_performance |-> <<>>,
     how_to_beat |-> <<>>,
     what_not_to_do |-> <<>>,
     evidence_tables |-> <<>>,
     team_summary |-> [name |-> team, matches_analyzed |-> 0,
                       overall_win_rate |-> Frac(0, 1)],
     trend_alerts |-> <<>>,
     map_veto |-> <<>>,
     map_performance |-> <<>>,
     economy_stats |-> Null,
     player_stats |-> <<>>,
     capabilities |-> [pistol |-> Some(50), economy |-> Some(50),
                       first_bloods |-> Some(50), attack |-> Some(50),
                       defense |-> Some(50), consistency |-> Some(50)],
     key_insights |-> <<>>,
     meta |-> [data_source |-> source, data_quality |-> Some("good")]]

\* types/report.ts 115-130: the top-level fields of ScoutingReport
ScoutingReportFields ==
    {"generated_at", "team_summary", "trend_alerts", "map_veto",
     "map_performance", "side_performance", "economy_stats", "player_stats",
     "capabilities", "key_insights", "how_to_beat", "what_not_to_do",
     "evidence_tables", "meta"}

\* README, GET /report: the top-level fields of the documented response
ReadmeResponseFields ==
    {"generated_at", "team_summary", "trend_alerts", "map_veto",
     "map_performance", "side_performance", "economy_stats", "player_stats",
     "capabilities", "key_insights", "how_to_beat", "what_not_to_do",
     "evidence_tables"}

\* page.tsx 131-440: the top-level fields the page reads of its report
PageReadFields ==
    {"generated_at", "team_summary", "trend_alerts", "map_veto",
     "map_performance", "side_performance", "economy_stats", "player_stats",
     "capabilities", "key_insights", "how_to_beat", "what_not_to_do", "meta"}

\* the text of a cell value, as the sequence of its characters
Digits == <<"1", "2", "3", "4", "5", "6", "7", "8", "9">>
LongText == [i \in 1..24 |-> "x"]

\* the columns of an evidence table
Columns == <<"match_id", "map_name", "round_num", "side", "won", "notes">>

\* row k of an evidence table: Record<string, any> as its entries in key
\* order, the last one a text longer than a cell shows
SampleRow(k) ==
    [c \in DOMAIN Columns |->
        [key |-> Columns[c],
         value |-> IF c = Len(Columns) THEN LongText ELSE <<Digits[k]>>]]

\* EvidenceRef (types/report.ts 7-11) with the first n rows of its table
EvidenceRefOf(table, filters, n) ==
    [table |-> table, filters |-> filters,
     sample_rows |-> [k \in 1..n |-> SampleRow(k)]]

\* KeyInsight (types/report.ts 14-25); impact_score in thousandths
InsightOf(title, severity, category, impact_score, evidence_refs) ==
    [title |-> title, severity |-> severity, category |-> category,
     impact_score |-> impact_score, evidence_refs |-> evidence_refs]

\* useReport 21-29: the state of the first render, before its effect ran;
\* fetchCalls counts the calls of fetchData, fetchCount the requests sent
useReport(props) ==
    [props |-> props, report |-> Null, loading |-> FALSE, error |-> NoError,
     inflight |-> {}, fetchCalls |-> 0, fetchCount |-> 0, mounted |-> FALSE]

\* page.tsx 131: {report && !loading && ...}
ReportShown == report # Null /\ ~loading

\* page.tsx 109: {error && ...}
ErrorShown == error # NoError

\* page.tsx 96: {loading && <SkeletonReport />}
SkeletonShown == loading

-----------------------------------------------------------------------------
(* Sections 3 and 4 of the displayed report: map analysis and map *)
(* performance (page.tsx 302-328)                                 *)

GameRecords == {<<g, w>> : g \in GamesChoices, w \in 0..20} \cap
               {gw \in GamesChoices \X (0..20) : gw[2] <= gw[1]}

\* the map_performance lists of n maps
MapStatsLists(n) ==
    {[i \in 1..n |-> MapStatsOf(MapNames[i], f[i][1], f[i][2])] :
        f \in [1..n -> GameRecords]}

\* the server's map_veto for these maps
ServerMapVeto(stats) == [i \in 1..Len(stats) |-> MapVetoOf(stats[i])]

RenderMapAnalysis ==
    /\ ReportShown
    /\ mapSection' =
         [rendered |-> TRUE,
          data |-> MapBarChartData(report.map_veto, report.map_performance),
          noMapData |-> MapBarChartEmpty(report.map_veto, report.map_performance),
          vetoCard |-> Len(report.map_veto) > 0,
          sortedVetos |-> MapVetoGrid(report.map_veto),
          summary |-> MapVetoSummary(report.map_veto),
          mapPerformance |-> MapPerformance(report.map_performance)]
    /\ UNCHANGED <<pageVars, netVars, trendSection, prevTrendSection, detailSection,
                   insightSection, hook, engine, widgetVars>>

\* a page that displays a report whose map fields are drawn from the bounds;
\* map_veto is the server's classification of the maps, or empty
InitMaps ==
    /\ statusPanel = NotRendered
    /\ teamSearch = NotRendered
    /\ checklist = NotRendered
    /\ teamName = "Cloud9"
    /\ \E n \in 0..MaxMaps : \E stats \in MapStatsLists(n) :
       \E veto \in {<<>>, ServerMapVeto(stats)} :
         report = [EmptyReport("Cloud9", "live") EXCEPT
                     !.team_summary.matches_analyzed = 10,
                     !.map_performance = stats,
                     !.map_veto = veto]
    /\ loading = FALSE
    /\ error = NoError
    /\ apiStatus = "connected"
    /\ useLiveData = TRUE
    /\ inflight = {}
    /\ loadCount = 1
    /\ healthInflight = 0
    /\ mapSection = NotRendered
    /\ trendSection = NotRendered
    /\ prevTrendSection = NotRendered
    /\ detailSection = NotRendered
    /\ insightSection = NotRendered
    /\ engine = Idle
    /\ hook = NotRendered

NextMaps == RenderMapAnalysis

SpecMaps == InitMaps /\ [][NextMaps]_vars

\* C1: every recommendation shown for a map with at least 3 games follows the
\* thresholds: PICK iff win_rate >= 0.55, BAN iff win_rate <= 0.45, NEUTRAL
\* otherwise, also when MapBarChart derives it from map_performance; a map
\* played 3 times and won twice is PICK.
C1_VetoByThresholds ==
    mapSection.rendered =>
        \A i \in DOMAIN mapSection.data :
            LET d == mapSection.data[i] IN
            d.games >= 3 =>
                /\ d.recommendation = "PICK" <=> FracGE(d.winRate, PickThreshold)
                /\ d.recommendation = "BAN" <=> FracLE(d.winRate, BanThreshold)
                /\ d.recommendation = "NEUTRAL" <=>
                      (~FracGE(d.winRate, PickThreshold) /\ ~FracLE(d.winRate, BanThreshold))
                /\ (d.games = 3 /\ d.wins = 2) => d.recommendation = "PICK"

\* C1 witness: the chart derived its data from map_performance (map_veto is
\* empty) and shows PICK for a map played 3 times and won twice, and a map at
\* exactly 0.55 is shown too.
C1_Witness ==
    /\ mapSection.rendered
    /\ report.map_veto = <<>>
    /\ \E i \in DOMAIN mapSection.data :
          LET d == mapSection.data[i] IN
          d.games = 3 /\ d.wins = 2 /\ d.recommendation = "PICK"
    /\ \E i \in DOMAIN mapSection.data :
          LET d == mapSection.data[i] IN
          d.games = 20 /\ d.wins = 11 /\ d.recommendation = "PICK"

\* the maps of a list, as a bag of names
NameCount(s, name) == Cardinality({i \in DOMAIN s : s[i].map_name = name})

\* C2: a map with fewer than 3 games is LOW_SAMPLE wherever a recommendation
\* is assigned (MapBarChart's derivation included), is in neither the BAN nor
\* the PICK list of MapVetoSummary, and MapVetoGrid shows every input map
\* exactly once.
C2_LowSampleBelowThree ==
    mapSection.rendered =>
        /\ \A i \in DOMAIN mapSection.data :
              mapSection.data[i].games < 3 =>
                  mapSection.data[i].recommendation = "LOW_SAMPLE"
        /\ \A i \in DOMAIN mapSection.summary.bans :
              mapSection.summary.bans[i].games >= 3
        /\ \A i \in DOMAIN mapSection.summary.picks :
              mapSection.summary.picks[i].games >= 3
        /\ Len(mapSection.sortedVetos) = Len(report.map_veto)
        /\ \A i \in DOMAIN report.map_veto :
              NameCount(mapSection.sortedVetos, report.map_veto[i].map_name) = 1

\* s and t hold the same elements, each as often
IsPermutation(s, t) ==
    /\ Len(s) = Len(t)
    /\ \E f \in [DOMAIN s -> DOMAIN s] :
          /\ \A i, j \in DOMAIN s : f[i] = f[j] => i = j
          /\ \A i \in DOMAIN s : t[i] = s[f[i]]

\* C13: the map-performance rows are ordered by games played, non-increasing,
\* and are a permutation of the report's map_performance, which the sort
\* leaves as it was.
C13_MapPerformanceByGames ==
    mapSection.rendered =>
        LET shown == mapSection.mapPerformance.sortedMaps IN
        /\ \A i, j \in DOMAIN shown : i < j => shown[i].games >= shown[j].games
        /\ IsPermutation(report.map_performance, shown)
        /\ mapSection.mapPerformance.maps = report.map_performance

\* C13 witness: two maps given with the fewer games first are shown with the
\* more played map first.
C13_Witness ==
    /\ mapSection.rendered
    /\ Len(report.map_performance) >= 2
    /\ report.map_performance[1].games < report.map_performance[2].games
    /\ mapSection.mapPerformance.sortedMaps[1] = report.map_performance[2]

-----------------------------------------------------------------------------
(* Section 2 of the displayed report: the win-rate trend chart *)
(* (page.tsx 269-277, TrendChart.tsx)                          *)

MaxMatches == 4

\* the denominator of the rates of this section: thousandths
Scale == 1000
Rate(n) == Frac(n, Scale)

\* the window of the "recent" average (TrendChart.tsx 36-37), and the window
\* the report's trends compare it with (page.tsx 283)
RecentWindow == 3
LongWindow == 10

\* Math.random(): a value of [0, 1)
RandomChoices == {Rate(0), Rate(990)}
OverallRates == {Rate(0), Rate(500), Rate(1000)}

Min(a, b) == IF a < b THEN a ELSE b
Max(a, b) == IF a > b THEN a ELSE b

\* TrendChart.tsx 171-172: one simulated match
\*   variance = (Math.random() - 0.5) * 0.4
\*   winRate = Math.max(0, Math.min(1, overallWinRate + variance))
SimulatedWinRate(overallWinRate, random) ==
    LET variance == ((random.num - 500) * 4) \div 10
    IN  Rate(Max(0, Min(Scale, overallWinRate.num + variance)))

\* TrendChart.tsx 165-182: generateTrendData, `randoms` the values
\* Math.random() returns in the loop
generateTrendData(matchCount, overallWinRate, randoms) ==
    [i \in 1..matchCount |->
        [match |-> i, winRate |-> SimulatedWinRate(overallWinRate, randoms[i])]]

\* data.slice(-k)
SliceLast(s, k) == SubSeq(s, Max(1, Len(s) - k + 1), Len(s))
\* data.slice(0, -k)
SliceButLast(s, k) == SubSeq(s, 1, Len(s) - k)

\* data.reduce((acc, d) => acc + d.winRate, 0), in thousandths
RECURSIVE SumWinRate(_)
SumWinRate(s) ==
    IF s = <<>> THEN 0 ELSE Head(s).winRate.num + SumWinRate(Tail(s))

\* sum / count: 0/0 is NaN
Average(sum, count) == Frac(sum, Scale * count)

\* TrendChart.tsx 35-39
TrendChart(data) ==
    LET recentAvg == Average(SumWinRate(SliceLast(data, RecentWindow)),
                             Min(RecentWindow, Len(data)))
        olderAvg == Average(SumWinRate(SliceButLast(data, RecentWindow)),
                            Max(1, Len(data) - RecentWindow))
    IN  [rendered |-> TRUE,
         data |-> data,
         recentAvg |-> recentAvg,
         olderAvg |-> olderAvg,
         isImproving |-> FracGT(recentAvg, olderAvg),
         overallAvg |-> Average(SumWinRate(data), Len(data))]

\* page.tsx 271-277: every render of the report calls generateTrendData anew
RenderTrend ==
    /\ ReportShown
    /\ \E randoms \in [1..report.team_summary.matches_analyzed -> RandomChoices] :
         trendSection' = TrendChart(generateTrendData(
                              report.team_summary.matches_analyzed,
                              report.team_summary.overall_win_rate, randoms))
    /\ prevTrendSection' = trendSection
    /\ UNCHANGED <<pageVars, netVars, mapSection, detailSection,
                   insightSection, hook, engine, widgetVars>>

\* a page that displays a report of 0..MaxMatches matches
InitTrend ==
    /\ statusPanel = NotRendered
    /\ teamSearch = NotRendered
    /\ checklist = NotRendered
    /\ teamName = "Cloud9"
    /\ \E n \in 0..MaxMatches : \E w \in OverallRates :
         report = [EmptyReport("Cloud9", "live") EXCEPT
                     !.team_summary.matches_analyzed = n,
                     !.team_summary.overall_win_rate = w]
    /\ loading = FALSE
    /\ error = NoError
    /\ apiStatus = "connected"
    /\ useLiveData = TRUE
    /\ inflight = {}
    /\ loadCount = 1
    /\ healthInflight = 0
    /\ mapSection = NotRendered
    /\ trendSection = NotRendered
    /\ prevTrendSection = NotRendered
    /\ detailSection = NotRendered
    /\ insightSection = NotRendered
    /\ engine = Idle
    /\ hook = NotRendered

NextTrend == RenderTrend

SpecTrend == InitTrend /\ [][NextTrend]_vars

\* C3: the chart compares the average of the last 3 matches with the average
\* of the last 10 matches (of all matches when there are fewer), and shows
\* Improving iff the first is strictly greater; for every non-empty match list.
C3_LastThreeVersusLastTen ==
    (trendSection.rendered /\ Len(trendSection.data) >= 1) =>
        LET data == trendSection.data
            last3 == SliceLast(data, RecentWindow)
            last10 == SliceLast(data, LongWindow)
            avg3 == Average(SumWinRate(last3), Len(last3))
            avg10 == Average(SumWinRate(last10), Len(last10))
        IN  /\ FracEQ(trendSection.recentAvg, avg3)
            /\ FracEQ(trendSection.olderAvg, avg10)
            /\ trendSection.isImproving <=> FracGT(avg3, avg10)

\* C4: no average of the chart is the result of a division by zero, also for
\* an empty match list.
C4_NoDivisionByZero ==
    trendSection.rendered =>
        /\ ~IsNaN(trendSection.recentAvg)
        /\ ~IsNaN(trendSection.olderAvg)
        /\ ~IsNaN(trendSection.overallAvg)

\* C5: two renders of the same report show the same trend data and the same
\* Improving/Declining label.
C5_SameReportSameTrend ==
    (trendSection.rendered /\ prevTrendSection.rendered) =>
        /\ trendSection.data = prevTrendSection.data
        /\ trendSection.isImproving = prevTrendSection.isImproving

-----------------------------------------------------------------------------
(* The data-quality notice and sections 4-8 of the displayed report *)
(* (page.tsx 218-259, 325-378)                                      *)

MaxPlayers == 2

PlayerNames == <<"OXY", "Xeppaa", "v1c", "mitch", "neT">>

\* meta.data_quality: absent, or one of the values the server documents
\* (README.md 137-144), or another value
DataQualities == {Null, Some("good"), Some("rankings_only"), Some("partial"),
                  Some("mock_fallback"), Some("estimated")}

\* a player's first_death_rate, in hundredths: absent, zero, or positive
OptionalRates == {Null, Some(0), Some(15)}

\* economy_stats: null, all zero, or with rounds played
EconomyChoices ==
    {Null,
     [pistol_rounds |-> 0, pistol_wins |-> 0, pistol_win_rate |-> Frac(0, 1),
      eco_rounds |-> 0, eco_wins |-> 0, eco_conversion_rate |-> Frac(0, 1)],
     [pistol_rounds |-> 4, pistol_wins |-> 1, pistol_win_rate |-> Frac(1, 4),
      eco_rounds |-> 5, eco_wins |-> 0, eco_conversion_rate |-> Frac(0, 1)]}

CapabilityScores == {Some(0), Some(50)}

\* PlayerStats of the report (types/report.ts 52-64), the rates in hundredths
PlayerOf(name, first_death_rate) ==
    [name |-> name, games |-> 5, first_blood_rate |-> Some(20),
     first_death_rate |-> first_death_rate]

PlayerLists ==
    UNION {{[i \in 1..n |-> PlayerOf(PlayerNames[i], f[i])] :
                f \in [1..n -> OptionalRates]} : n \in 0..MaxPlayers}

\* a string of the JSON in a condition: undefined, null and '' are falsy
TruthyString(x) == x # Null /\ x.value # ""

\* a number of the JSON in a condition: undefined, null and 0 are falsy
TruthyNumber(x) == x # Null /\ x.value # 0

\* x || 0
OrZero(x) == IF TruthyNumber(x) THEN x ELSE Some(0)

\* mutant: every value that is not 'rankings_only' gets the heading of 'partial'
DataQualityHeadingPartial(quality) ==
    IF quality = "rankings_only" THEN "Limited Data Available"
    ELSE "Partial Data Available"

\* page.tsx 229-233: the heading of the notice
DataQualityHeading(quality) ==
    IF quality = "rankings_only" THEN "Limited Data Available"
    ELSE IF quality = "partial" THEN "Partial Data Available"
    ELSE "Data Quality Notice"

\* page.tsx 219-259: the data-quality warning of a displayed report
DataQualityNotice(r) ==
    IF TruthyString(r.meta.data_quality) /\ r.meta.data_quality.value # "good"
    THEN [shown |-> TRUE, heading |-> DataQualityHeading(r.meta.data_quality.value)]
    ELSE [shown |-> FALSE]

\* page.tsx 350-362: the props the page passes to PlayerStats
PlayerStatsProps(players) ==
    [i \in 1..Len(players) |->
        [name |-> players[i].name,
         games |-> players[i].games,
         first_blood_rate |-> players[i].first_blood_rate,
         first_death_rate |-> OrZero(players[i].first_death_rate)]]

\* SidePerformance 54: {economy && <Card> ... Economy Stats}
EconomyCardShown(economy) == economy # Null

\* RadarChart.tsx 20-27: the chart's data
CapabilitiesData(capabilities) ==
    <<[subject |-> "Pistol", value |-> capabilities.pistol],
      [subject |-> "Economy", value |-> capabilities.economy],
      [subject |-> "First Bloods", value |-> capabilities.first_bloods],
      [subject |-> "Attack", value |-> capabilities.attack],
      [subject |-> "Defense", value |-> capabilities.defense],
      [subject |-> "Consistency", value |-> capabilities.consistency]>>

\* InsightCardNew 437: the 'No significant insights detected' placeholder
InsightsPlaceholder(insights) == Len(insights) = 0

\* PlayerComparison.tsx 59: the 'No player data available' placeholder
PlayerComparisonEmpty(players) == Len(players) = 0

RenderDetails ==
    /\ ReportShown
    /\ detailSection' =
         [rendered |-> TRUE,
          notice |-> DataQualityNotice(report),
          playerStatsProps |-> PlayerStatsProps(report.player_stats),
          economyCard |-> EconomyCardShown(report.economy_stats),
          capabilities |-> CapabilitiesData(report.capabilities),
          noInsights |-> InsightsPlaceholder(report.key_insights),
          noPlayerData |-> PlayerComparisonEmpty(report.player_stats)]
    /\ UNCHANGED <<pageVars, netVars, mapSection, trendSection, prevTrendSection,
                   insightSection, hook, engine, widgetVars>>

\* a page that displays a report whose data quality, players, economy and
\* pistol capability are drawn from the bounds
InitDetails ==
    /\ statusPanel = NotRendered
    /\ teamSearch = NotRendered
    /\ checklist = NotRendered
    /\ teamName = "Cloud9"
    /\ \E q \in DataQualities : \E players \in PlayerLists :
       \E economy \in EconomyChoices : \E pistol \in CapabilityScores :
         report = [EmptyReport("Cloud9", "live") EXCEPT
                     !.team_summary.matches_analyzed = 5,
                     !.meta.data_quality = q,
                     !.player_stats = players,
                     !.economy_stats = economy,
                     !.capabilities.pistol = pistol]
    /\ loading = FALSE
    /\ error = NoError
    /\ apiStatus = "connected"
    /\ useLiveData = TRUE
    /\ inflight = {}
    /\ loadCount = 1
    /\ healthInflight = 0
    /\ mapSection = NotRendered
    /\ trendSection = NotRendered
    /\ prevTrendSection = NotRendered
    /\ detailSection = NotRendered
    /\ insightSection = NotRendered
    /\ engine = Idle
    /\ hook = NotRendered

NextDetails == RenderDetails

SpecDetails == InitDetails /\ [][NextDetails]_vars

\* C6: absent and zero stay distinct: a player's absent first_death_rate is
\* not passed on as 0 and a present 0 stays 0; the economy card is shown iff
\* economy_stats is present, also when all its values are 0; a capability
\* score reaches the chart as it is in the report.
C6_AbsentIsNotZero ==
    detailSection.rendered =>
        /\ \A i \in DOMAIN report.player_stats :
              LET given == report.player_stats[i].first_death_rate
                  passed == detailSection.playerStatsProps[i].first_death_rate
              IN  /\ given = Null => passed # Some(0)
                  /\ given = Some(0) => passed = Some(0)
        /\ detailSection.economyCard <=> report.economy_stats # Null
        /\ detailSection.capabilities[1].value = report.capabilities.pistol

\* C12: every report has exactly the 14 top-level fields; the ScoutingReport
\* type and the documented /report response declare that same field set, so
\* every field the page reads exists.
C12_FourteenFields ==
    /\ DOMAIN report = ScoutingReportFields
    /\ Cardinality(ScoutingReportFields) = 14
    /\ ReadmeResponseFields = ScoutingReportFields
    /\ PageReadFields \subseteq ReadmeResponseFields
    /\ PageReadFields \subseteq DOMAIN report

-----------------------------------------------------------------------------
(* The API client: fetchReport, checkHealth (lib/api.ts) *)

\* a report of the server with matches, maps, players and an insight
FullReport(team, source) ==
    [EmptyReport(team, source) EXCEPT
        !.team_summary.matches_analyzed = 10,
        !.team_summary.overall_win_rate = Frac(6, 10),
        !.map_performance = <<MapStatsOf("Ascent", 3, 2)>>,
        !.map_veto = <<MapVetoOf(MapStatsOf("Ascent", 3, 2))>>,
        !.player_stats = <<PlayerOf("OXY", Some(15))>>,
        !.key_insights = <<InsightOf("Pistol Loss Collapse", "HIGH", "loss_pattern",
                                     620, <<>>)>>]

DataSource(mock) == IF mock THEN "mock" ELSE "live"

\* what fetch() can give for GET /report?team=..&n=10&mock=..: the report,
\* an error status with a JSON body with or without `detail` or with a body
\* that is not JSON, or no response at all
ReportResponses(team, mock) ==
    {[kind |-> "ok", body |-> r] :
        r \in {EmptyReport(team, DataSource(mock)), FullReport(team, DataSource(mock))}}
    \cup {[kind |-> "http", status |-> 404, json |-> TRUE, detail |-> Some("Team not found")],
          [kind |-> "http", status |-> 500, json |-> TRUE, detail |-> Null],
          [kind |-> "http", status |-> 502, json |-> FALSE, detail |-> Null],
          [kind |-> "network"]}

\* api.ts 9-14
APIError(status, message) ==
    [name |-> "APIError", status |-> status, message |-> message]

\* the TypeError a fetch() without response rejects with
NetworkError == [name |-> "TypeError", message |-> "Failed to fetch"]

\* api.ts 19-43: what the promise of fetchReport settles to for a response
fetchReport(response) ==
    IF response.kind = "network" THEN [resolved |-> FALSE, err |-> NetworkError]
    ELSE IF response.kind = "ok" THEN [resolved |-> TRUE, value |-> response.body]
    ELSE LET detail == IF response.json THEN response.detail
                       ELSE Some("Unknown error")
         IN  [resolved |-> FALSE,
              err |-> APIError(response.status,
                               IF TruthyString(detail) THEN detail.value
                               ELSE "Failed to fetch report")]

\* err instanceof Error ? err.message : fallback (page.tsx 74)
ErrorMessage(err, fallback) ==
    IF err.name \in {"APIError", "TypeError"} THEN err.message ELSE fallback

\* what fetch() can give for GET /health
HealthResponses ==
    {[kind |-> "ok", json |-> TRUE, status |-> "healthy"],
     [kind |-> "ok", json |-> TRUE, status |-> "degraded"],
     [kind |-> "ok", json |-> FALSE, status |-> ""],
     [kind |-> "http", json |-> TRUE, status |-> ""],
     [kind |-> "network", json |-> FALSE, status |-> ""]}

\* api.ts 133-143: checkHealth; `return response.json()` leaves the try block
\* before the promise settles, so a body that is not JSON rejects
checkHealth(response) ==
    IF response.kind = "network"
    THEN [resolved |-> TRUE, value |-> [status |-> "unreachable"]]
    ELSE IF response.kind = "http"
    THEN [resolved |-> TRUE, value |-> [status |-> "unhealthy"]]
    ELSE IF response.json
    THEN [resolved |-> TRUE, value |-> [status |-> response.status]]
    ELSE [resolved |-> FALSE]

-----------------------------------------------------------------------------
(* ReportPage: loadReport, checkApiStatus and the buttons (page.tsx 40-216) *)

MaxLoads == 2

\* a request of loadReport that has not settled: `load` numbers the
\* loadReport call, `team` and `live` are the teamName and the useLiveData
\* argument of that call, `firstErr` the error of its failed live request
\* (the request is then the mock fallback), `response` what the network holds
Request(load, team, live, mock, firstErr) ==
    [load |-> load, team |-> team, live |-> live, mock |-> mock,
     firstErr |-> firstErr, response |-> Null]

\* mutant: the load does not remember that its live request has failed
IsFallbackNever(rq) == FALSE

IsFallback(rq) == rq.firstErr # Null

\* page.tsx 56-61: loadReport up to its first await
LoadReport(team, live) ==
    /\ loadCount < MaxLoads
    /\ loading' = TRUE
    /\ error' = NoError
    /\ inflight' = inflight \cup {Request(loadCount + 1, team, live, ~live, Null)}
    /\ loadCount' = loadCount + 1

\* page.tsx 80-81: checkApiStatus up to its await
CheckApiStatus == healthInflight' = healthInflight + 1

\* page.tsx 50-53: the effect of the first render
Mount ==
    /\ loadCount = 0
    /\ LoadReport(teamName, useLiveData)
    /\ CheckApiStatus
    /\ UNCHANGED <<teamName, report, apiStatus, useLiveData, viewVars, hook, engine, widgetVars>>

\* the route's team changes: the effect runs again (page.tsx 50-53)
TeamChange(team) ==
    /\ loadCount > 0
    /\ team # teamName
    /\ teamName' = team
    /\ LoadReport(team, useLiveData)
    /\ CheckApiStatus
    /\ UNCHANGED <<report, apiStatus, useLiveData, viewVars, hook, engine, widgetVars>>

\* page.tsx 178-190: the Live and the Mock button
ClickDataSource(live) ==
    /\ ReportShown
    /\ useLiveData' = live
    /\ LoadReport(teamName, live)
    /\ UNCHANGED <<teamName, report, apiStatus, healthInflight, viewVars, hook, engine, widgetVars>>

\* page.tsx 201-207: Refresh
ClickRefresh ==
    /\ ReportShown
    /\ LoadReport(teamName, useLiveData)
    /\ UNCHANGED <<teamName, report, apiStatus, useLiveData, healthInflight, viewVars, hook, engine, widgetVars>>

\* page.tsx 120-126: Try Again calls loadReport(), useLiveData = false
ClickTryAgain ==
    /\ ErrorShown
    /\ LoadReport(teamName, FALSE)
    /\ UNCHANGED <<teamName, report, apiStatus, useLiveData, healthInflight, viewVars, hook, engine, widgetVars>>

\* the network answers a pending request
ServerRespond(rq) ==
    /\ rq.response = Null
    /\ \E response \in ReportResponses(rq.team, rq.mock) :
         inflight' = (inflight \ {rq}) \cup {[rq EXCEPT !.response = response]}
    /\ UNCHANGED <<pageVars, loadCount, healthInflight, viewVars, hook, engine, widgetVars>>

\* mutant: a report without matches is treated as a failed load
LoadSucceededUnlessEmpty(data) ==
    /\ report' = IF data.team_summary.matches_analyzed = 0 THEN report ELSE data
    /\ error' = IF data.team_summary.matches_analyzed = 0 THEN "No matches found"
                ELSE error
    /\ loading' = FALSE

\* page.tsx 62 / 68 and 76: setReport(data), finally setLoading(false)
LoadSucceeded(data) ==
    /\ report' = data
    /\ loading' = FALSE
    /\ UNCHANGED error

\* mutant: a failed load leaves the loading flag as it is
LoadFailedStillLoading(err) ==
    /\ error' = ErrorMessage(err, "Failed to load report")
    /\ UNCHANGED <<report, loading>>

\* page.tsx 74 and 76: setError(message), finally setLoading(false)
LoadFailed(err) ==
    /\ error' = ErrorMessage(err, "Failed to load report")
    /\ loading' = FALSE
    /\ UNCHANGED report

\* mutant: when both requests failed, the error of the mock request is shown
ReceiveResponseLastError(rq) ==
    /\ rq.response # Null
    /\ LET outcome == fetchReport(rq.response) IN
       IF outcome.resolved
       THEN /\ LoadSucceeded(outcome.value)
            /\ inflight' = inflight \ {rq}
       ELSE IF ~IsFallback(rq) /\ rq.live
       THEN /\ inflight' = (inflight \ {rq}) \cup
                    {Request(rq.load, rq.team, rq.live, TRUE, outcome.err)}
            /\ UNCHANGED <<report, loading, error>>
       ELSE /\ LoadFailed(outcome.err)
            /\ inflight' = inflight \ {rq}
    /\ UNCHANGED <<teamName, apiStatus, useLiveData, loadCount, healthInflight, viewVars, hook, engine, widgetVars>>

\* page.tsx 61-77: loadReport resumes when its awaited fetchReport settles
ReceiveResponse(rq) ==
    /\ rq.response # Null
    /\ LET outcome == fetchReport(rq.response) IN
       IF outcome.resolved
       THEN /\ LoadSucceeded(outcome.value)
            /\ inflight' = inflight \ {rq}
       ELSE IF IsFallback(rq)
       THEN /\ LoadFailed(rq.firstErr)
            /\ inflight' = inflight \ {rq}
       ELSE IF rq.live
       THEN /\ inflight' = (inflight \ {rq}) \cup
                    {Request(rq.load, rq.team, rq.live, TRUE, outcome.err)}
            /\ UNCHANGED <<report, loading, error>>
       ELSE /\ LoadFailed(outcome.err)
            /\ inflight' = inflight \ {rq}
    /\ UNCHANGED <<teamName, apiStatus, useLiveData, loadCount, healthInflight, viewVars, hook, engine, widgetVars>>

\* page.tsx 80-83: checkApiStatus resumes when checkHealth settles
ReceiveHealth ==
    /\ healthInflight > 0
    /\ healthInflight' = healthInflight - 1
    /\ \E response \in HealthResponses :
         LET health == checkHealth(response) IN
         apiStatus' = IF ~health.resolved THEN apiStatus
                      ELSE IF health.value.status = "healthy" THEN "connected"
                      ELSE "disconnected"
    /\ UNCHANGED <<teamName, report, loading, error, useLiveData, inflight,
                   loadCount, viewVars, hook, engine, widgetVars>>

\* page.tsx 44-48: the state of the first render
Init ==
    /\ statusPanel = NotRendered
    /\ teamSearch = NotRendered
    /\ checklist = NotRendered
    /\ teamName = "Cloud9"
    /\ report = Null
    /\ loading = TRUE
    /\ error = NoError
    /\ apiStatus = "checking"
    /\ useLiveData = TRUE
    /\ inflight = {}
    /\ loadCount = 0
    /\ healthInflight = 0
    /\ mapSection = NotRendered
    /\ trendSection = NotRendered
    /\ prevTrendSection = NotRendered
    /\ detailSection = NotRendered
    /\ insightSection = NotRendered
    /\ engine = Idle
    /\ hook = NotRendered

Next ==
    \/ Mount
    \/ \E team \in Teams : TeamChange(team)
    \/ \E live \in BOOLEAN : ClickDataSource(live)
    \/ ClickRefresh
    \/ ClickTryAgain
    \/ \E rq \in inflight : ServerRespond(rq)
    \/ \E rq \in inflight : ReceiveResponse(rq)
    \/ ReceiveHealth

Spec == Init /\ [][Next]_vars

\* a report of a team without matches: no matches, every metric array and
\* the insight list empty
IsZeroMatch(r) ==
    /\ r.team_summary.matches_analyzed = 0
    /\ r.map_veto = <<>> /\ r.map_performance = <<>>
    /\ r.player_stats = <<>> /\ r.trend_alerts = <<>>
    /\ r.key_insights = <<>>

\* the response handed to loadReport in this step, if it is request rq's
Settles(rq) == rq \in inflight /\ rq.response # Null /\ rq \notin inflight'

\* C7: a zero-match report is not an error.  When the only pending request
\* of the page (no error shown) is answered with a report without matches,
\* the page ends displaying that report with error = null and loading =
\* false; the insight list, the map chart and the player chart show their
\* placeholders.
C7_ZeroMatchesNotAnError ==
    [][\A rq \in inflight :
          (/\ Settles(rq)
           /\ inflight = {rq}
           /\ error = NoError
           /\ rq.response.kind = "ok"
           /\ IsZeroMatch(rq.response.body))
          => (/\ report' = rq.response.body
              /\ loading' = FALSE
              /\ error' = NoError
              /\ ReportShown'
              /\ InsightsPlaceholder(report'.key_insights)
              /\ MapBarChartEmpty(report'.map_veto, report'.map_performance)
              /\ PlayerComparisonEmpty(report'.player_stats))]_vars

\* C7 witness: the page displays a zero-match report, nothing is pending and
\* no error is shown.
C7_Witness ==
    /\ report # Null
    /\ IsZeroMatch(report)
    /\ ReportShown
    /\ error = NoError
    /\ inflight = {}

\* C8: a failed report request raises an APIError with the HTTP status and
\* the server's detail message, and when the load fails (its mock request
\* failed) the page shows the error message of the load and no report.
C8_FailedLoadShowsOnlyError ==
    [][\A rq \in inflight :
          (/\ Settles(rq)
           /\ ~fetchReport(rq.response).resolved)
          => LET err == fetchReport(rq.response).err IN
             /\ (rq.response.kind = "http" /\ rq.response.json
                    /\ rq.response.detail # Null)
                  => err = APIError(rq.response.status, rq.response.detail.value)
             /\ rq.mock =>
                  /\ error' = (IF IsFallback(rq) THEN rq.firstErr.message
                               ELSE err.message)
                  /\ ~ReportShown']_vars

-----------------------------------------------------------------------------
(* The useReport hook (hooks/useReport.ts) inside a calling component *)

\* the values a caller passes: the team ('' when none is chosen yet), useMock
\* and autoFetch; nMatches stays at its default
HookProps ==
    [teamName : Teams \cup {""}, useMock : BOOLEAN, autoFetch : BOOLEAN]

\* useReport 31-38: fetchData up to its await; it returns at once without a
\* team name
fetchData(h) ==
    IF ~TruthyString(Some(h.props.teamName))
    THEN [h EXCEPT !.fetchCalls = @ + 1]
    ELSE [h EXCEPT !.loading = TRUE,
                   !.error = NoError,
                   !.fetchCalls = @ + 1,
                   !.fetchCount = @ + 1,
                   !.inflight = @ \cup {[id |-> h.fetchCount + 1,
                                         team |-> h.props.teamName,
                                         mock |-> h.props.useMock,
                                         response |-> Null]}]

\* useReport 48-52: the effect
HookEffect(h) ==
    IF h.props.autoFetch /\ TruthyString(Some(h.props.teamName))
    THEN fetchData(h) ELSE h

\* the effect of the first render
HookMount ==
    /\ ~hook.mounted
    /\ hook' = HookEffect([hook EXCEPT !.mounted = TRUE])
    /\ UNCHANGED <<pageVars, netVars, viewVars, engine, widgetVars>>

\* the caller renders with other props: autoFetch, teamName or fetchData
\* (whose identity follows teamName and useMock) changed, so the effect runs
HookSetProps(props) ==
    /\ hook.mounted
    /\ hook.fetchCalls < MaxLoads
    /\ props # hook.props
    /\ hook' = HookEffect([hook EXCEPT !.props = props])
    /\ UNCHANGED <<pageVars, netVars, viewVars, engine, widgetVars>>

\* useReport 58: the caller calls refetch
HookRefetch ==
    /\ hook.mounted
    /\ hook.fetchCalls < MaxLoads
    /\ hook' = fetchData(hook)
    /\ UNCHANGED <<pageVars, netVars, viewVars, engine, widgetVars>>

\* the network answers a pending request of the hook
HookServerRespond(rq) ==
    /\ rq.response = Null
    /\ \E response \in ReportResponses(rq.team, rq.mock) :
         hook' = [hook EXCEPT !.inflight =
                     (@ \ {rq}) \cup {[rq EXCEPT !.response = response]}]
    /\ UNCHANGED <<pageVars, netVars, viewVars, engine, widgetVars>>

\* useReport 38-45: fetchData resumes when its awaited fetchReport settles
HookReceiveResponse(rq) ==
    /\ rq.response # Null
    /\ LET outcome == fetchReport(rq.response) IN
       hook' = IF outcome.resolved
               THEN [hook EXCEPT !.report = outcome.value,
                                 !.loading = FALSE,
                                 !.inflight = @ \ {rq}]
               ELSE [hook EXCEPT !.error = ErrorMessage(outcome.err,
                                                        "Failed to fetch report"),
                                 !.report = Null,
                                 !.loading = FALSE,
                                 !.inflight = @ \ {rq}]
    /\ UNCHANGED <<pageVars, netVars, viewVars, engine, widgetVars>>

InitHook ==
    /\ statusPanel = NotRendered
    /\ teamSearch = NotRendered
    /\ checklist = NotRendered
    /\ teamName = "Cloud9"
    /\ report = Null
    /\ loading = TRUE
    /\ error = NoError
    /\ apiStatus = "checking"
    /\ useLiveData = TRUE
    /\ inflight = {}
    /\ loadCount = 0
    /\ healthInflight = 0
    /\ mapSection = NotRendered
    /\ trendSection = NotRendered
    /\ prevTrendSection = NotRendered
    /\ detailSection = NotRendered
    /\ insightSection = NotRendered
    /\ engine = Idle
    /\ \E props \in HookProps : hook = useReport(props)

NextHook ==
    \/ HookMount
    \/ \E props \in HookProps : HookSetProps(props)
    \/ HookRefetch
    \/ \E rq \in hook.inflight : HookServerRespond(rq)
    \/ \E rq \in hook.inflight : HookReceiveResponse(rq)

SpecHook == InitHook /\ [][NextHook]_vars

\* C9: abandoning a request has no consequence.  Once the hook has issued a
\* newer request, the response or failure of an older one changes neither
\* report nor error nor loading.
C9_AbandonedRequestInert ==
    [][\A rq \in hook.inflight :
          (/\ rq.response # Null
           /\ rq \notin hook'.inflight
           /\ rq.id < hook.fetchCount)
          => (/\ hook'.report = hook.report
              /\ hook'.error = hook.error
              /\ hook'.loading = hook.loading)]_vars

-----------------------------------------------------------------------------
(* Key Insights: InsightsListNew, InsightCardNew, EvidenceDrawer *)

MaxInsights == 2
MaxRows == 4

\* EvidenceDrawer 410, 402/412, 414: the rows, columns and characters shown
ShownRows == 3
ShownColumns == 5
ShownChars == 20

\* s.slice(0, n), s.substring(0, n)
Take(s, n) == SubSeq(s, 1, Min(n, Len(s)))

TableNames == <<"rounds", "matches">>
InsightTitles == <<"Pistol Loss Collapse", "Map Weakness", "Eco Punish", "Slow Starts">>

\* how many rows a ref carries: none, as many as a table shows, or more
RowCounts == {0, ShownRows, MaxRows}

\* the evidence of one insight: no ref, one ref, or two refs, the second
\* with a filter
RefLists ==
    {<<>>}
    \cup {<<EvidenceRefOf(TableNames[1], <<>>, n)>> : n \in RowCounts}
    \cup {<<EvidenceRefOf(TableNames[1], <<>>, n),
            EvidenceRefOf(TableNames[2], <<[key |-> "map_name", value |-> "Ascent"]>>, m)>> :
              n \in RowCounts, m \in RowCounts}

InsightLists ==
    UNION {{[i \in 1..n |-> InsightOf(InsightTitles[i], "HIGH", "loss_pattern",
                                      900 - 100 * i, refs[i])] :
                refs \in [1..n -> RefLists]} : n \in 0..MaxInsights}

\* EvidenceDrawer 410-417: one <tr> of a sample row
EvidenceRow(row) ==
    LET entries == Take(row, ShownColumns) IN
    [c \in DOMAIN entries |->
        [key |-> entries[c].key, text |-> Take(entries[c].value, ShownChars)]]

\* EvidenceDrawer 382-419: what is shown for one evidence ref
EvidenceSource(ref) ==
    [table |-> ref.table,
     filters |-> IF Len(ref.filters) > 0 THEN Some(ref.filters) ELSE Null,
     header |-> IF Len(ref.sample_rows) > 0
                THEN LET keys == Take(ref.sample_rows[1], ShownColumns)
                     IN  [c \in DOMAIN keys |-> keys[c].key]
                ELSE <<>>,
     rows |-> LET rows == Take(ref.sample_rows, ShownRows)
              IN  [k \in DOMAIN rows |-> EvidenceRow(rows[k])]]

\* EvidenceDrawer 352-430
EvidenceDrawer(evidenceRefs, showEvidence) ==
    [rendered |-> TRUE,
     sources |-> Len(evidenceRefs),
     shown |-> IF showEvidence
               THEN [i \in DOMAIN evidenceRefs |-> EvidenceSource(evidenceRefs[i])]
               ELSE <<>>]

\* InsightCardNew 225-350: the card of one insight
InsightCardNew(insight, card) ==
    [title |-> insight.title,
     severity |-> insight.severity,
     expanded |-> card.isExpanded,
     evidence |-> IF card.isExpanded /\ Len(insight.evidence_refs) > 0
                  THEN EvidenceDrawer(insight.evidence_refs, card.showEvidence)
                  ELSE NotRendered]

\* InsightsListNew 436-455
InsightsListNew(insights, cards) ==
    IF Len(insights) = 0
    THEN [placeholder |-> TRUE, cards |-> <<>>]
    ELSE [placeholder |-> FALSE,
          cards |-> [i \in DOMAIN insights |-> InsightCardNew(insights[i], cards[i])]]

\* the Key Insights section for the given useState values of its cards
InsightSection(cards) ==
    [rendered |-> TRUE, cards |-> cards,
     list |-> InsightsListNew(report.key_insights, cards)]

\* page.tsx 364-378: the section appears, every card collapsed (225, 353)
RenderInsights ==
    /\ ReportShown
    /\ insightSection = NotRendered
    /\ engine = Idle
    /\ insightSection' =
         InsightSection([i \in DOMAIN report.key_insights |->
                            [isExpanded |-> FALSE, showEvidence |-> FALSE]])
    /\ UNCHANGED <<pageVars, netVars, mapSection, trendSection, prevTrendSection,
                   detailSection, hook, engine, widgetVars>>

\* InsightCardNew 257: a click on the card's header; the drawer is mounted
\* with the expanded content, so its showEvidence starts over
ClickCard(i) ==
    /\ insightSection.rendered
    /\ insightSection' =
         InsightSection([insightSection.cards EXCEPT
                            ![i] = [isExpanded |-> ~@.isExpanded,
                                    showEvidence |-> FALSE]])
    /\ UNCHANGED <<pageVars, netVars, mapSection, trendSection, prevTrendSection,
                   detailSection, hook, engine, widgetVars>>

\* EvidenceDrawer 358-361: a click on Show / Hide Evidence
ClickShowEvidence(i) ==
    /\ insightSection.rendered
    /\ insightSection.list.cards[i].evidence.rendered
    /\ insightSection' =
         InsightSection([insightSection.cards EXCEPT
                            ![i].showEvidence = ~@])
    /\ UNCHANGED <<pageVars, netVars, mapSection, trendSection, prevTrendSection,
                   detailSection, hook, engine, widgetVars>>

InitInsights ==
    /\ statusPanel = NotRendered
    /\ teamSearch = NotRendered
    /\ checklist = NotRendered
    /\ teamName = "Cloud9"
    /\ \E insights \in InsightLists :
         report = [EmptyReport("Cloud9", "live") EXCEPT
                     !.team_summary.matches_analyzed = 10,
                     !.key_insights = insights]
    /\ loading = FALSE
    /\ error = NoError
    /\ apiStatus = "connected"
    /\ useLiveData = TRUE
    /\ inflight = {}
    /\ loadCount = 1
    /\ healthInflight = 0
    /\ mapSection = NotRendered
    /\ trendSection = NotRendered
    /\ prevTrendSection = NotRendered
    /\ detailSection = NotRendered
    /\ insightSection = NotRendered
    /\ engine = Idle
    /\ hook = NotRendered

NextInsights ==
    \/ RenderInsights
    \/ \E i \in DOMAIN report.key_insights : ClickCard(i)
    \/ \E i \in DOMAIN report.key_insights : ClickShowEvidence(i)

SpecInsights == InitInsights /\ [][NextInsights]_vars

\* C11: evidence is never dropped or reordered.  For every card whose
\* evidence is opened, every evidence ref of the insight is shown, in the
\* original order, and every sample row of every ref is shown, in the
\* original order.
C11_EvidenceKeptInOrder ==
    insightSection.rendered =>
        \A i \in DOMAIN report.key_insights :
            LET refs == report.key_insights[i].evidence_refs
                card == insightSection.list.cards[i]
            IN  (card.evidence.rendered /\ insightSection.cards[i].showEvidence) =>
                  /\ Len(card.evidence.shown) = Len(refs)
                  /\ \A j \in DOMAIN refs :
                        /\ card.evidence.shown[j].table = refs[j].table
                        /\ Len(card.evidence.shown[j].rows) = Len(refs[j].sample_rows)
                        /\ \A k \in DOMAIN card.evidence.shown[j].rows :
                              card.evidence.shown[j].rows[k]
                                  = EvidenceRow(refs[j].sample_rows[k])

-----------------------------------------------------------------------------
(* What the application renders: the report page, or a component that calls *)
(* useReport (the page has its own loadReport and does not call the hook)   *)

InitLoads == Init \/ InitHook

NextLoads ==
    \/ hook = NotRendered /\ Next
    \/ hook # NotRendered /\ NextHook

SpecLoads == InitLoads /\ [][NextLoads]_vars

\* the requests the page sends in this step
NewRequests == {rq \in inflight' : rq.response = Null} \ inflight

\* the requests the hook sends in this step
HookNewRequests ==
    IF hook = NotRendered THEN {}
    ELSE {rq \in hook'.inflight : rq.response = Null} \ hook.inflight

\* the calls of fetchData in this step
HookNewCalls == IF hook = NotRendered THEN 0 ELSE hook'.fetchCalls - hook.fetchCalls

\* A step of the page sends at most one request: the first request of a new
\* loadReport invocation, or the mock request of an invocation whose first
\* request was the live one and has just failed; nothing is sent after the
\* mock request of a live load, and an invocation has one request in flight.
LoadReportNoRetry ==
    /\ Cardinality(NewRequests) <= 1
    /\ \A rq \in NewRequests :
          \/ /\ loadCount' = loadCount + 1
             /\ rq.load = loadCount'
             /\ rq.firstErr = Null
          \/ /\ loadCount' = loadCount
             /\ rq.mock /\ rq.firstErr # Null
             /\ \E old \in inflight :
                   /\ Settles(old)
                   /\ old.load = rq.load /\ old.team = rq.team
                   /\ old.live /\ ~old.mock /\ old.firstErr = Null
                   /\ ~fetchReport(old.response).resolved
    /\ \A a, b \in inflight' : a.load = b.load => a = b

\* C14 as stated: no retries.  A loadReport invocation sends each distinct
\* request at most once and at most two in total, the mock request only
\* after the live one failed; every fetchData invocation of useReport sends
\* exactly one request.
C14_NoRetriesExactlyOne ==
    [][/\ LoadReportNoRetry
       /\ Cardinality(HookNewRequests) = HookNewCalls]_vars

\* C14 amended: as above for loadReport; every fetchData invocation of
\* useReport sends one request when the team name is not empty and none
\* when it is empty, and nothing is sent without an invocation.
C14_NoRetries ==
    [][/\ LoadReportNoRetry
       /\ HookNewCalls \in {0, 1}
       /\ Cardinality(HookNewRequests) =
             (IF HookNewCalls = 1 /\ hook'.props.teamName # "" THEN 1 ELSE 0)]_vars

\* C14 witness: the live request of a load has failed and its mock request
\* is in flight.
C14_Witness ==
    \E rq \in inflight : rq.firstErr # Null /\ rq.mock /\ rq.live

-----------------------------------------------------------------------------
(* The server's trend alerts (the rule engine is not part of the client     *)
(* sources; modelled from the specification, rates in thousandths)          *)

MaxTracked == 2

TrackedMetrics == <<"win_rate", "pistol_win_rate", "attack_win_rate">>

\* the values of a tracked metric over the last 3 and the last 10 matches
TrendRates == {0, 350, 500, 750, 1000}

HighDelta == 250
MedDelta == 150

\* mutant: a delta of exactly 0.25 is not yet HIGH
TrendSignificanceStrict(last_3, last_10) ==
    IF Abs(last_3 - last_10) > HighDelta THEN "HIGH"
    ELSE IF Abs(last_3 - last_10) >= MedDelta THEN "MED"
    ELSE "suppress"

\* HIGH if |last3 - last10| >= 0.25, MED if >= 0.15, otherwise suppress
TrendSignificance(last_3, last_10) ==
    IF Abs(last_3 - last_10) >= HighDelta THEN "HIGH"
    ELSE IF Abs(last_3 - last_10) >= MedDelta THEN "MED"
    ELSE "suppress"

\* improving if last3 > last10
TrendDirection(last_3, last_10) ==
    IF last_3 > last_10 THEN "improving" ELSE "declining"

\* TrendAlert (types/report.ts 27-34) of one trend delta; change_pct in
\* whole percent, 0 when last_10 is 0
TrendAlertOf(t) ==
    [metric |-> t.metric, last_3 |-> t.last_3, last_10 |-> t.last_10,
     change_pct |-> IF t.last_10 = 0 THEN 0
                    ELSE ((t.last_3 - t.last_10) * 100) \div t.last_10,
     direction |-> TrendDirection(t.last_3, t.last_10),
     significance |-> TrendSignificance(t.last_3, t.last_10)]

IsEmitted(alert) == alert.significance # "suppress"

\* the trend alerts of a report: one per trend delta that is not suppressed
TrendAlerts(trends) ==
    SelectSeq([i \in DOMAIN trends |-> TrendAlertOf(trends[i])], IsEmitted)

\* the trend deltas of a metrics bundle with n tracked metrics
TrendDeltas(n) ==
    {[i \in 1..n |-> [metric |-> TrackedMetrics[i],
                      last_3 |-> f[i][1], last_10 |-> f[i][2]]] :
        f \in [1..n -> TrendRates \X TrendRates]}

\* the engine computes the trend alerts of the report
ComputeTrendAlerts ==
    /\ engine.phase = "metrics"
    /\ engine' = [engine EXCEPT !.phase = "done",
                                !.trend_alerts = TrendAlerts(engine.trends)]
    /\ UNCHANGED <<pageVars, netVars, viewVars, hook, widgetVars>>

InitAlerts ==
    /\ statusPanel = NotRendered
    /\ teamSearch = NotRendered
    /\ checklist = NotRendered
    /\ teamName = "Cloud9"
    /\ report = Null
    /\ loading = TRUE
    /\ error = NoError
    /\ apiStatus = "checking"
    /\ useLiveData = TRUE
    /\ inflight = {}
    /\ loadCount = 0
    /\ healthInflight = 0
    /\ mapSection = NotRendered
    /\ trendSection = NotRendered
    /\ prevTrendSection = NotRendered
    /\ detailSection = NotRendered
    /\ insightSection = NotRendered
    /\ hook = NotRendered
    /\ \E n \in 0..MaxTracked : \E trends \in TrendDeltas(n) :
         engine = [phase |-> "metrics", trends |-> trends, trend_alerts |-> <<>>]

NextAlerts == ComputeTrendAlerts

SpecAlerts == InitAlerts /\ [][NextAlerts]_vars

-----------------------------------------------------------------------------
(* The server's insight engine: rules, ranking and deduplication (not part  *)
(* of the client sources; modelled from the specification, sections 4.2,    *)
(* 4.3 and 5; scores in thousandths)                                        *)

\* the registry: the rules in registration order, with the category of each
RuleRegistry ==
    <<[category |-> "loss_pattern", title |-> "Pistol Loss Collapse"],
      [category |-> "loss_pattern", title |-> "Early Deficit"],
      [category |-> "trend", title |-> "Win Rate Shift"]>>

Rules == DOMAIN RuleRegistry

\* the metrics a finding can rest on, with the filter that produced each
MetricFilters ==
    [pistol_loss_rate |-> <<[key |-> "lost_pistol", value |-> TRUE]>>,
     win_rate |-> <<>>]

MetricKeys == DOMAIN MetricFilters

\* the canonical matches table of the call
MaxTableRows == 4

MatchesTable ==
    [k \in 1..MaxTableRows |->
        [match_id |-> k, lost_pistol |-> (k % 2 = 1), won |-> (k % 3 = 0)]]

\* the cap of the rows an evidence ref samples
SampleCap == 2

\* a row satisfies a filter if it has the value of every entry of the filter
Satisfies(row, filters) ==
    \A i \in DOMAIN filters : row[filters[i].key] = filters[i].value

\* mutant: the sample is taken from the table without the filter
QueryEvidenceUnfiltered(table, name, filters) ==
    [table |-> name, filters |-> filters,
     sample_rows |-> Take(table, SampleCap)]

\* evidence as a pure query: the first SampleCap rows that satisfy the filter
QueryEvidence(table, name, filters) ==
    LET Matching(row) == Satisfies(row, filters)
    IN  [table |-> name, filters |-> filters,
         sample_rows |-> Take(SelectSeq(table, Matching), SampleCap)]

\* confidence_weight: 1.0 (high), 0.7 (medium), 0.4 (low)
ConfidenceWeight(confidence) ==
    IF confidence = "high" THEN 1000
    ELSE IF confidence = "medium" THEN 700
    ELSE 400

\* the integer part of log2(n), n >= 1
RECURSIVE Log2(_)
Log2(n) == IF n <= 1 THEN 0 ELSE 1 + Log2(n \div 2)

\* the sample size from which the frequency factor is 1
SaturationSize == 32

\* mutant: the logarithm is normalized but does not saturate
FrequencyFactorUnbounded(n) ==
    IF n <= 1 THEN 0
    ELSE (Log2(n) * Scale) \div Log2(SaturationSize)

\* frequency_factor: log(sample size), normalized and saturating at 1
FrequencyFactor(n) ==
    IF n <= 1 THEN 0
    ELSE Min(Scale, (Log2(n) * Scale) \div Log2(SaturationSize))

\* impact_score = confidence_weight x effect_size x frequency_factor
ImpactScore(confidence, effect_size, n) ==
    (ConfidenceWeight(confidence) * effect_size * FrequencyFactor(n))
        \div (Scale * Scale)

\* what a finding can rest on: its confidence tier, its effect size and the
\* size of its sample
Strengths ==
    {[confidence |-> "high", effect_size |-> 1000, n |-> 1000],
     [confidence |-> "medium", effect_size |-> 500, n |-> 15],
     [confidence |-> "low", effect_size |-> 1000, n |-> 5]}

Severities == {"HIGH", "MED", "LOW"}

\* what a rule finds on a metric
Findings ==
    {[metric |-> m, severity |-> v, confidence |-> g.confidence,
      effect_size |-> g.effect_size, n |-> g.n] :
        m \in MetricKeys, v \in Severities, g \in Strengths}

\* a rule is a pure function of the bundle and the tables: on the inputs of
\* one call its value is one list of findings: none, one, or two findings
\* with equal strength and severity, on one metric or on two
RuleOutputs ==
    {<<>>}
    \cup {<<f>> : f \in Findings}
    \cup {<<f, [f EXCEPT !.metric = m]>> :
            f \in {c \in Findings : /\ c.metric = "pistol_loss_rate"
                                    /\ c.severity = "MED"
                                    /\ c.confidence = "medium"},
            m \in MetricKeys}

\* the candidate that rule r emits for its finding at position pos
CandidateOf(r, pos, f) ==
    [rule |-> r, pos |-> pos,
     title |-> RuleRegistry[r].title,
     category |-> RuleRegistry[r].category,
     metric |-> f.metric,
     severity |-> f.severity,
     confidence |-> f.confidence,
     effect_size |-> f.effect_size,
     n |-> f.n,
     impact_score |-> ImpactScore(f.confidence, f.effect_size, f.n),
     evidence_refs |-> <<QueryEvidence(MatchesTable, "matches_df",
                                       MetricFilters[f.metric])>>]

\* the candidates of rule r
EvaluateRuleOn(r, findings) ==
    [pos \in DOMAIN findings |-> CandidateOf(r, pos, findings[pos])]

SeverityRank(severity) ==
    IF severity = "HIGH" THEN 3 ELSE IF severity = "MED" THEN 2 ELSE 1

\* the order by impact and severity, without the registration order
ByImpactSeverity(a, b) ==
    IF a.impact_score # b.impact_score THEN b.impact_score - a.impact_score
    ELSE SeverityRank(b.severity) - SeverityRank(a.severity)

\* mutant: the order by impact alone
ByImpactOnly(a, b) == b.impact_score - a.impact_score

\* the ranking order: impact descending, then HIGH > MED > LOW, then the
\* earlier registered rule, then the position in the rule's list
ByImpactDesc(a, b) ==
    IF a.impact_score # b.impact_score THEN b.impact_score - a.impact_score
    ELSE IF a.severity # b.severity
    THEN SeverityRank(b.severity) - SeverityRank(a.severity)
    ELSE IF a.rule # b.rule THEN a.rule - b.rule
    ELSE a.pos - b.pos

SameGroup(a, b) == a.category = b.category /\ a.metric = b.metric

\* mutant: every candidate survives
DeduplicateNone(candidates) == candidates

\* of the candidates with one (category, metric key) the first in the ranking
\* order survives
Deduplicate(candidates) ==
    LET Survives(c) ==
          \A i \in DOMAIN candidates :
             SameGroup(candidates[i], c) => ByImpactDesc(c, candidates[i]) <= 0
    IN  SelectSeq(candidates, Survives)

\* the most insights a report carries
MaxInsightCount == 3

\* mutant: ties of impact and severity stay in the order of the merged list
RankInsightsMerged(candidates) ==
    LET kept == Deduplicate(candidates)
        sorted == StableSort(kept, [j \in DOMAIN kept, i \in DOMAIN kept |->
                                       ByImpactSeverity(kept[j], kept[i])])
    IN  Take(sorted, MaxInsightCount)

\* the ranking stage: deduplicate, sort, truncate
RankInsights(candidates) ==
    LET kept == Deduplicate(candidates)
        sorted == StableSort(kept, [j \in DOMAIN kept, i \in DOMAIN kept |->
                                       ByImpactDesc(kept[j], kept[i])])
    IN  Take(sorted, MaxInsightCount)

\* a sample row as the JSON object the client reads: its entries in key order
RowEntries(row) ==
    <<[key |-> "match_id", value |-> <<Digits[row.match_id]>>],
      [key |-> "lost_pistol",
       value |-> IF row.lost_pistol THEN <<"t", "r", "u", "e">>
                 ELSE <<"f", "a", "l", "s", "e">>],
      [key |-> "won",
       value |-> IF row.won THEN <<"t", "r", "u", "e">>
                 ELSE <<"f", "a", "l", "s", "e">>]>>

\* the KeyInsight of the response for a ranked candidate
KeyInsightOf(c) ==
    InsightOf(c.title, c.severity, c.category, c.impact_score,
              [e \in DOMAIN c.evidence_refs |->
                 [table |-> c.evidence_refs[e].table,
                  filters |-> c.evidence_refs[e].filters,
                  sample_rows |->
                     [k \in DOMAIN c.evidence_refs[e].sample_rows |->
                        RowEntries(c.evidence_refs[e].sample_rows[k])]]])

\* the candidate lists of the rules, concatenated in the order given
RECURSIVE MergeCandidates(_, _)
MergeCandidates(order, outputs) ==
    IF order = <<>> THEN <<>>
    ELSE EvaluateRuleOn(Head(order), outputs[Head(order)])
            \o MergeCandidates(Tail(order), outputs)

RegistrationOrder == [r \in Rules |-> r]

\* a rule finishes: its candidates are appended to the merged list (rules run
\* in parallel, in any order of completion)
EvaluateRule(r) ==
    /\ engine.phase = "rules"
    /\ r \in engine.pending
    /\ engine' = [engine EXCEPT
                    !.pending = @ \ {r},
                    !.candidates = @ \o EvaluateRuleOn(r, engine.outputs[r])]
    /\ UNCHANGED <<pageVars, netVars, viewVars, hook, widgetVars>>

\* every rule finished: the ranking stage produces the final list
Rank ==
    /\ engine.phase = "rules"
    /\ engine.pending = {}
    /\ engine' = [phase |-> "done", outputs |-> engine.outputs,
                  candidates |-> engine.candidates,
                  insights |-> RankInsights(engine.candidates)]
    /\ UNCHANGED <<pageVars, netVars, viewVars, hook, widgetVars>>

\* the report with the final list reaches the page; the generation is over
DeliverReport ==
    /\ engine.phase = "done"
    /\ report' = [EmptyReport(teamName, "live") EXCEPT
                    !.team_summary.matches_analyzed = 10,
                    !.key_insights = [i \in DOMAIN engine.insights |->
                                        KeyInsightOf(engine.insights[i])]]
    /\ loading' = FALSE
    /\ engine' = Idle
    /\ UNCHANGED <<teamName, error, apiStatus, useLiveData, netVars, viewVars, hook, widgetVars>>

InitEngine ==
    /\ statusPanel = NotRendered
    /\ teamSearch = NotRendered
    /\ checklist = NotRendered
    /\ teamName = "Cloud9"
    /\ report = Null
    /\ loading = TRUE
    /\ error = NoError
    /\ apiStatus = "connected"
    /\ useLiveData = TRUE
    /\ inflight = {}
    /\ loadCount = 1
    /\ healthInflight = 0
    /\ mapSection = NotRendered
    /\ trendSection = NotRendered
    /\ prevTrendSection = NotRendered
    /\ detailSection = NotRendered
    /\ insightSection = NotRendered
    /\ hook = NotRendered
    /\ \E outputs \in [Rules -> RuleOutputs] :
         engine = [phase |-> "rules", outputs |-> outputs,
                   pending |-> Rules, candidates |-> <<>>]

NextEngine ==
    \/ \E r \in Rules : EvaluateRule(r)
    \/ Rank
    \/ DeliverReport
    \/ RenderInsights

SpecEngine == InitEngine /\ [][NextEngine]_vars

\* the candidates and insights the engine holds
EngineInsights ==
    IF engine.phase = "rules" THEN engine.candidates
    ELSE IF engine.phase = "done" THEN engine.insights
    ELSE <<>>

\* C16: the impact score of every insight is the product of a confidence
\* weight of 1.0, 0.7 or 0.4, an effect size in [0, 1] and a frequency factor
\* in [0, 1], and lies in [0, 1]; so does every impact score the page receives
C16_ImpactScoreInUnitRange ==
    /\ \A i \in DOMAIN EngineInsights :
          LET c == EngineInsights[i]
              w == ConfidenceWeight(c.confidence)
              q == FrequencyFactor(c.n)
          IN  /\ w = (CASE c.confidence = "high" -> 1000
                        [] c.confidence = "medium" -> 700
                        [] c.confidence = "low" -> 400)
              /\ c.effect_size \in 0..Scale
              /\ q \in 0..Scale
              /\ c.impact_score = (w * c.effect_size * q) \div (Scale * Scale)
              /\ c.impact_score \in 0..Scale
    /\ report # Null =>
          \A i \in DOMAIN report.key_insights :
             report.key_insights[i].impact_score \in 0..Scale

\* a sample beyond the saturation size scores 1, a small low-confidence
\* sample scores less
C16_Witness ==
    /\ engine.phase = "rules"
    /\ \E i, j \in DOMAIN engine.candidates :
          /\ engine.candidates[i].n > SaturationSize
          /\ engine.candidates[i].impact_score = Scale
          /\ engine.candidates[j].confidence = "low"
          /\ engine.candidates[j].impact_score \in 1..(Scale - 1)

\* C19: every sample row of every evidence ref is a row of the table the ref
\* names and satisfies every filter of the ref
C19_SampleRowsFromFilteredTable ==
    \A i \in DOMAIN EngineInsights :
       \A e \in DOMAIN EngineInsights[i].evidence_refs :
          LET ref == EngineInsights[i].evidence_refs[e] IN
          /\ ref.table = "matches_df"
          /\ \A k \in DOMAIN ref.sample_rows :
                /\ \E t \in DOMAIN MatchesTable :
                      MatchesTable[t] = ref.sample_rows[k]
                /\ \A f \in DOMAIN ref.filters :
                      ref.sample_rows[k][ref.filters[f].key] = ref.filters[f].value

\* a ref with a filter that some row of the table fails, and with rows
C19_Witness ==
    /\ engine.phase = "done"
    /\ \E i \in DOMAIN engine.insights :
          \E e \in DOMAIN engine.insights[i].evidence_refs :
             LET ref == engine.insights[i].evidence_refs[e] IN
             /\ Len(ref.filters) > 0
             /\ Len(ref.sample_rows) = SampleCap
             /\ \E t \in DOMAIN MatchesTable :
                   \E f \in DOMAIN ref.filters :
                      MatchesTable[t][ref.filters[f].key] # ref.filters[f].value

\* every candidate of the call, the rules taken in registration order
AllCandidates == MergeCandidates(RegistrationOrder, engine.outputs)

\* C17: after ranking no two insights share a (category, metric key) pair,
\* and the insight of a pair is a candidate with the highest impact score of
\* the candidates with that pair
C17_OneInsightPerGroup ==
    engine.phase = "done" =>
       LET all == AllCandidates IN
       /\ \A i, j \in DOMAIN engine.insights :
             i # j => ~ (/\ engine.insights[i].category = engine.insights[j].category
                         /\ engine.insights[i].metric = engine.insights[j].metric)
       /\ \A i \in DOMAIN engine.insights :
             /\ \E k \in DOMAIN all : all[k] = engine.insights[i]
             /\ \A k \in DOMAIN all :
                   (/\ all[k].category = engine.insights[i].category
                    /\ all[k].metric = engine.insights[i].metric)
                   => all[k].impact_score <= engine.insights[i].impact_score
       /\ Len(engine.insights) =
             Min(MaxInsightCount,
                 Cardinality({<<all[k].category, all[k].metric>> : k \in DOMAIN all}))

\* two rules found the same (category, metric key) with different impact; the
\* one with the higher impact is in the final list
C17_Witness ==
    /\ engine.phase = "done"
    /\ \E i \in DOMAIN engine.insights :
          \E k \in DOMAIN AllCandidates :
             /\ AllCandidates[k].category = engine.insights[i].category
             /\ AllCandidates[k].metric = engine.insights[i].metric
             /\ AllCandidates[k].rule # engine.insights[i].rule
             /\ AllCandidates[k].impact_score < engine.insights[i].impact_score

\* C18: the final list is ordered by impact, highest first; of two insights
\* with equal impact the one with the higher severity comes first, and of two
\* with equal impact and severity the one of the earlier registered rule; the
\* page shows the list in the order of key_insights, card i for insight i
C18_RankedAndShownInOrder ==
    /\ engine.phase = "done" =>
          \A i, j \in DOMAIN engine.insights :
             i < j =>
                LET a == engine.insights[i]
                    b == engine.insights[j]
                IN  \/ a.impact_score > b.impact_score
                    \/ /\ a.impact_score = b.impact_score
                       /\ SeverityRank(a.severity) > SeverityRank(b.severity)
                    \/ /\ a.impact_score = b.impact_score
                       /\ a.severity = b.severity
                       /\ a.rule <= b.rule
    /\ insightSection.rendered =>
          /\ Len(insightSection.list.cards) = Len(report.key_insights)
          /\ \A i \in DOMAIN report.key_insights :
                /\ insightSection.list.cards[i].title = report.key_insights[i].title
                /\ insightSection.list.cards[i].severity = report.key_insights[i].severity
          /\ \A i, j \in DOMAIN report.key_insights :
                i < j =>
                   \/ report.key_insights[i].impact_score > report.key_insights[j].impact_score
                   \/ /\ report.key_insights[i].impact_score = report.key_insights[j].impact_score
                      /\ SeverityRank(report.key_insights[i].severity)
                            >= SeverityRank(report.key_insights[j].severity)

\* three cards of equal impact: HIGH before MED, and of the two MED the one of
\* the rule registered first
C18_Witness ==
    /\ insightSection.rendered
    /\ Len(insightSection.list.cards) = 3
    /\ \A i \in 1..3 : report.key_insights[i].impact_score = report.key_insights[1].impact_score
    /\ insightSection.list.cards[1].severity = "HIGH"
    /\ insightSection.list.cards[2].severity = "MED"
    /\ insightSection.list.cards[3].severity = "MED"
    /\ insightSection.list.cards[1].title = RuleRegistry[2].title
    /\ insightSection.list.cards[2].title = RuleRegistry[1].title
    /\ insightSection.list.cards[3].title = RuleRegistry[3].title

\* C20: in whatever order the rules finish and their lists are merged, the
\* final list is the one that evaluation in registration order gives
C20_OrderIndependent ==
    engine.phase = "done" => engine.insights = RankInsights(AllCandidates)

\* the rules finished in another order than they are registered, with
\* candidates of equal impact and severity from different rules
C20_Witness ==
    /\ engine.phase = "done"
    /\ engine.candidates # AllCandidates
    /\ \E i, j \in DOMAIN engine.candidates :
          /\ i < j
          /\ engine.candidates[i].rule > engine.candidates[j].rule
          /\ engine.candidates[i].impact_score = engine.candidates[j].impact_score
          /\ engine.candidates[i].severity = engine.candidates[j].severity
          /\ ~ SameGroup(engine.candidates[i], engine.candidates[j])
    /\ Len(engine.insights) >= 2

-----------------------------------------------------------------------------
(* ReportPage: the paths of loadReport, the panels, the data source *)

\* the requests sent in this step (an answer of the network is no request)
SentRequests == {rq \in inflight' \ inflight : rq.response = Null}

\* C21: a loadReport called for live data sends the live request first, and
\* one mock request only when the live request failed; when that mock request
\* succeeds its report is displayed and the load leaves error as it is (null
\* since the start of the load); when both fail, error is the message of the
\* live failure; a loadReport called for mock data that fails sets error to
\* the failure's message and sends nothing more
C21_LiveFirstMockFallback ==
    [][/\ \A rq \in SentRequests :
             /\ rq.live => (rq.mock <=> rq.firstErr # Null)
             /\ rq.firstErr # Null =>
                   \E live \in inflight :
                      /\ Settles(live)
                      /\ live.load = rq.load /\ live.live /\ ~live.mock
                      /\ ~fetchReport(live.response).resolved
                      /\ rq.firstErr = fetchReport(live.response).err
             /\ ~rq.live => rq.mock /\ rq.firstErr = Null
       /\ \A rq \in inflight :
             Settles(rq) =>
                LET outcome == fetchReport(rq.response) IN
                /\ (rq.live /\ ~rq.mock /\ ~outcome.resolved) =>
                      /\ SentRequests = {Request(rq.load, rq.team, TRUE, TRUE, outcome.err)}
                      /\ UNCHANGED <<report, loading, error>>
                /\ (rq.live /\ ~rq.mock /\ outcome.resolved) =>
                      /\ SentRequests = {}
                      /\ report' = outcome.value
                /\ (rq.live /\ rq.mock /\ outcome.resolved) =>
                      /\ SentRequests = {}
                      /\ report' = outcome.value
                      /\ ReportShown'
                      /\ error' = error
                /\ (rq.live /\ rq.mock /\ ~outcome.resolved) =>
                      /\ SentRequests = {}
                      /\ error' = rq.firstErr.message
                      /\ report' = report
                /\ (~rq.live /\ ~outcome.resolved) =>
                      /\ SentRequests = {}
                      /\ error' = outcome.err.message
                      /\ report' = report]_vars

\* the first load, for live data, has failed twice, the live request with
\* 404 "Team not found": that message is shown
C21_Witness ==
    /\ loadCount = 1
    /\ inflight = {}
    /\ ~loading
    /\ report = Null
    /\ error = "Team not found"

\* C22: the error panel and the report content are never displayed together:
\* in every reachable state of the page, error # null implies that the
\* report content is not rendered (report = null or loading)
C22_ErrorExcludesReport ==
    ErrorShown => (report = Null \/ loading)

\* C23: loading is true whenever a report request of the component is in
\* flight, on the page and in useReport, also when loads overlap: loading
\* becomes false only when the last outstanding request has settled
C23_LoadingWhilePending ==
    /\ hook = NotRendered => (inflight # {} => loading)
    /\ hook # NotRendered => (hook.inflight # {} => hook.loading)

\* the request of the hook that settles in this step, if it is rq
HookSettles(rq) ==
    rq \in hook.inflight /\ rq.response # Null /\ rq \notin hook'.inflight

\* C24: a loadReport whose last request settles (success of the first
\* request, success of the mock fallback, failure of both or of the only
\* request) ends with loading = false, and so does every fetchData of
\* useReport; once every request has settled the skeleton is not shown
C24_SettledLoadStopsLoading ==
    [][IF hook = NotRendered
       THEN /\ \A rq \in inflight :
                  (Settles(rq) /\ SentRequests = {}) => loading' = FALSE
            /\ (loadCount' > 0 /\ inflight' = {}) => ~SkeletonShown'
       ELSE /\ \A rq \in hook.inflight : HookSettles(rq) => hook'.loading = FALSE
            /\ hook'.inflight = {} => ~hook'.loading]_vars

\* a live load has failed twice and the page shows its error, not loading
C24_Witness ==
    /\ hook = NotRendered
    /\ loadCount = 1
    /\ inflight = {}
    /\ error # NoError
    /\ ~loading

\* C25: the first request of every load the page starts is for the data
\* source selected after the step: a live request (mock = false) while Live
\* is selected, also for Try Again, as for Refresh and the Live / Mock buttons
C25_RequestsUseSelectedSource ==
    [][\A rq \in SentRequests :
          rq.firstErr = Null => (rq.mock <=> ~useLiveData')]_vars

\* C26: apiStatus starts as "checking"; when a health request settles,
\* whatever its outcome, checkHealth has resolved and apiStatus is
\* "connected" if the endpoint reported "healthy" and "disconnected"
\* otherwise; apiStatus never returns to "checking"
C26_ApiStatusFollowsHealth ==
    [][/\ healthInflight' < healthInflight =>
             \E response \in HealthResponses :
                /\ checkHealth(response).resolved
                /\ apiStatus' = IF response.kind = "ok" /\ response.status = "healthy"
                                THEN "connected" ELSE "disconnected"
       /\ apiStatus # "checking" => apiStatus' # "checking"]_vars

-----------------------------------------------------------------------------
(* StatusPanel (components/report/StatusPanel.tsx) *)

ServiceNames == <<"VORACLE API", "GRID API", "VLR API">>

\* StatusPanel 77-96: checkService for what fetch() gives; it never rejects
checkService(name, response) ==
    [name |-> name,
     status |-> IF response.kind = "network" THEN "disconnected"
                ELSE IF response.kind = "ok" THEN "connected"
                ELSE "disconnected"]

\* mutant: only the VORACLE API gets the result of the check
checkAllServicesVoracleOnly(services, voracleStatus) ==
    [services EXCEPT ![1] = voracleStatus]

\* StatusPanel 57-69: the services set after the check of the VORACLE API
checkAllServices(services, voracleStatus) ==
    <<voracleStatus,
      [name |-> ServiceNames[2],
       status |-> IF voracleStatus.status = "connected" THEN "connected"
                  ELSE "disconnected"],
      [name |-> ServiceNames[3],
       status |-> IF voracleStatus.status = "connected" THEN "connected"
                  ELSE "disconnected"]>>

\* StatusPanel 117-121
overallStatus(services) ==
    IF \A i \in DOMAIN services : services[i].status = "connected"
    THEN "connected"
    ELSE IF \E i \in DOMAIN services : services[i].status = "checking"
    THEN "checking"
    ELSE "disconnected"

\* StatusPanel 32-38: the state of the first render.  `pending` are the
\* checkAllServices calls waiting for fetch(), `interval` whether the timer
\* of line 43 is set, `notified` the calls of onStatusChange in order,
\* `lastOk` whether the check that completed last had an OK response
StatusPanel ==
    [rendered |-> TRUE,
     phase |-> "rendered",
     services |-> [i \in DOMAIN ServiceNames |->
                      [name |-> ServiceNames[i], status |-> "checking"]],
     isChecking |-> FALSE,
     interval |-> FALSE,
     pending |-> {},
     checkCount |-> 0,
     completed |-> 0,
     lastOk |-> Null,
     notified |-> <<>>]

\* StatusPanel 47-53: checkAllServices up to its await
StartCheck(p) ==
    [p EXCEPT !.isChecking = TRUE,
              !.checkCount = @ + 1,
              !.pending = @ \cup {p.checkCount + 1}]

\* StatusPanel 40-45: the effect of the first render
PanelMount ==
    /\ statusPanel.rendered
    /\ statusPanel.phase = "rendered"
    /\ statusPanel' = [StartCheck(statusPanel) EXCEPT !.phase = "mounted",
                                                       !.interval = TRUE]
    /\ UNCHANGED <<pageVars, netVars, viewVars, hook, engine, teamSearch, checklist>>

\* StatusPanel 43: the timer fires
PanelInterval ==
    /\ statusPanel.rendered
    /\ statusPanel.interval
    /\ statusPanel.checkCount < MaxChecks
    /\ statusPanel' = StartCheck(statusPanel)
    /\ UNCHANGED <<pageVars, netVars, viewVars, hook, engine, teamSearch, checklist>>

\* StatusPanel 44: the cleanup of the effect
PanelUnmount ==
    /\ statusPanel.rendered
    /\ statusPanel.phase = "mounted"
    /\ statusPanel' = [statusPanel EXCEPT !.phase = "unmounted",
                                          !.interval = FALSE]
    /\ UNCHANGED <<pageVars, netVars, viewVars, hook, engine, teamSearch, checklist>>

\* StatusPanel 53-74: checkAllServices resumes when fetch() settles; React
\* drops the state updates of a component that is not mounted any more
PanelCheckSettles(check, response) ==
    /\ statusPanel.rendered
    /\ check \in statusPanel.pending
    /\ LET voracleStatus == checkService(ServiceNames[1], response)
           allHealthy == voracleStatus.status = "connected"
           notified == Append(statusPanel.notified,
                              IF allHealthy THEN "healthy" ELSE "unhealthy")
       IN  statusPanel' =
             IF statusPanel.phase = "mounted"
             THEN [statusPanel EXCEPT
                     !.services = checkAllServices(statusPanel.services, voracleStatus),
                     !.isChecking = FALSE,
                     !.pending = @ \ {check},
                     !.completed = @ + 1,
                     !.lastOk = Some(response.kind = "ok"),
                     !.notified = notified]
             ELSE [statusPanel EXCEPT
                     !.pending = @ \ {check},
                     !.notified = notified]
    /\ UNCHANGED <<pageVars, netVars, viewVars, hook, engine, teamSearch, checklist>>

InitPanel ==
    /\ teamName = "Cloud9"
    /\ report = Null
    /\ loading = TRUE
    /\ error = NoError
    /\ apiStatus = "checking"
    /\ useLiveData = TRUE
    /\ inflight = {}
    /\ loadCount = 0
    /\ healthInflight = 0
    /\ mapSection = NotRendered
    /\ trendSection = NotRendered
    /\ prevTrendSection = NotRendered
    /\ detailSection = NotRendered
    /\ insightSection = NotRendered
    /\ hook = NotRendered
    /\ engine = Idle
    /\ statusPanel = StatusPanel
    /\ teamSearch = NotRendered
    /\ checklist = NotRendered

NextPanel ==
    \/ PanelMount
    \/ PanelInterval
    \/ PanelUnmount
    \/ \E check \in statusPanel.pending : \E response \in HealthResponses :
          PanelCheckSettles(check, response)

SpecPanel == InitPanel /\ [][NextPanel]_vars

\* C27: after every completed service check the GRID API and VLR API
\* statuses equal the VORACLE API status; the overall indicator is
\* "connected" iff the /health request of the check completed last returned
\* OK and is "checking" only before the first check has completed;
\* onStatusChange is called with "healthy" iff the VORACLE API status is
\* "connected"; after unmount no periodic check is started
C27_StatusPanelFollowsHealth ==
    [][LET p == statusPanel' IN
       /\ p.completed > 0 =>
             /\ p.services[2].status = p.services[1].status
             /\ p.services[3].status = p.services[1].status
             /\ overallStatus(p.services) = "connected" <=> p.lastOk.value
       /\ overallStatus(p.services) = "checking" => p.completed = 0
       /\ (p.completed # statusPanel.completed) =>
             /\ Len(p.notified) = Len(statusPanel.notified) + 1
             /\ p.notified[Len(p.notified)] = "healthy"
                   <=> p.services[1].status = "connected"
       /\ statusPanel.phase = "unmounted" => p.checkCount = statusPanel.checkCount]_vars

\* two checks completed, the first with an OK response, the last without;
\* the panel shows "disconnected" and was unmounted with its timer cleared
C27_Witness ==
    /\ statusPanel.rendered
    /\ statusPanel.phase = "unmounted"
    /\ statusPanel.completed = 2
    /\ statusPanel.notified = <<"healthy", "unhealthy">>
    /\ overallStatus(statusPanel.services) = "disconnected"
    /\ ~statusPanel.interval

-----------------------------------------------------------------------------
(* TeamSearch and fetchPopularTeams (components/TeamSearch.tsx, lib/api.ts) *)

\* PopularTeam (api.ts 148-154)
PopularTeam(name, rank, region, record) ==
    [name |-> name, rank |-> rank, region |-> region, record |-> record,
     logo |-> Null]

\* api.ts 190-202: the built-in list
FallbackTeams ==
    [teams |-> <<PopularTeam("Sentinels", "1", "NA", "52-33"),
                 PopularTeam("Cloud9", "2", "NA", "28-28"),
                 PopularTeam("NRG", "3", "NA", "40-20"),
                 PopularTeam("100 Thieves", "4", "NA", "36-26"),
                 PopularTeam("G2 Esports", "5", "NA", "60-29"),
                 PopularTeam("Fnatic", "1", "EU", "56-28"),
                 PopularTeam("LOUD", "1", "LA", "45-22"),
                 PopularTeam("DRX", "1", "AP", "55-20")>>,
     source |-> "fallback"]

\* the teams a server can rank
RankedTeams ==
    <<PopularTeam("Sentinels", "1", "NA", "52-33"),
      PopularTeam("Fnatic", "1", "EU", "56-28"),
      PopularTeam("DRX", "1", "AP", "55-20")>>

\* what fetch() can give for GET /team/popular: a list of teams from the
\* rankings or from the cache, an OK response whose body is not JSON, an
\* error status, or no response at all
PopularTeamsResponses ==
    {[kind |-> "ok", json |-> TRUE,
      body |-> [teams |-> SubSeq(RankedTeams, 1, n), source |-> src]] :
        n \in 0..MaxTeams, src \in {"vlr", "cache"}}
    \cup {[kind |-> "ok", json |-> FALSE],
          [kind |-> "http", json |-> TRUE],
          [kind |-> "network", json |-> FALSE]}

\* api.ts 164-204: fetchPopularTeams; a failed fetch and the Error thrown for
\* a status that is not OK are caught; `return response.json()` leaves the
\* try block before the promise settles, so a body that is not JSON rejects
fetchPopularTeams(response) ==
    IF response.kind = "network" THEN [resolved |-> TRUE, value |-> FallbackTeams]
    ELSE IF response.kind = "http" THEN [resolved |-> TRUE, value |-> FallbackTeams]
    ELSE IF response.json THEN [resolved |-> TRUE, value |-> response.body]
    ELSE [resolved |-> FALSE]

RegionCodes == {"na", "eu", "ap", "la"}

\* String.prototype.toLowerCase on a region of the data
ToLowerCase(region) ==
    CASE region = "NA" -> "na" [] region = "EU" -> "eu"
      [] region = "AP" -> "ap" [] region = "LA" -> "la"
      [] OTHER -> region

\* TeamSearch 48-50
displayedTeams(popularTeams, selectedRegion) ==
    LET InRegion(t) == ToLowerCase(t.region) = selectedRegion
    IN  IF selectedRegion = "all" THEN popularTeams
        ELSE SelectSeq(popularTeams, InRegion)

\* TeamSearch 22-29: the state of the first render; `load` is the call of
\* loadPopularTeams: not started, pending, or settled with a response
TeamSearch ==
    [rendered |-> TRUE,
     isLoading |-> FALSE,
     popularTeams |-> <<>>,
     selectedRegion |-> "all",
     isLoadingTeams |-> TRUE,
     dataSource |-> "",
     pushed |-> Null,
     load |-> [phase |-> "none"]]

\* TeamSearch 31-38: the effect calls loadPopularTeams, up to its await
TeamSearchMount ==
    /\ teamSearch.rendered
    /\ teamSearch.load.phase = "none"
    /\ teamSearch' = [teamSearch EXCEPT !.isLoadingTeams = TRUE,
                                        !.load = [phase |-> "pending"]]
    /\ UNCHANGED <<pageVars, netVars, viewVars, hook, engine, statusPanel, checklist>>

\* TeamSearch 38-45: loadPopularTeams resumes when fetchPopularTeams settles
LoadPopularTeamsSettles(response) ==
    /\ teamSearch.rendered
    /\ teamSearch.load.phase = "pending"
    /\ LET outcome == fetchPopularTeams(response)
           load == [phase |-> "settled", response |-> response]
       IN  teamSearch' =
             IF outcome.resolved
             THEN [teamSearch EXCEPT !.popularTeams = outcome.value.teams,
                                     !.dataSource = outcome.value.source,
                                     !.isLoadingTeams = FALSE,
                                     !.load = load]
             ELSE [teamSearch EXCEPT !.isLoadingTeams = FALSE,
                                     !.load = load]
    /\ UNCHANGED <<pageVars, netVars, viewVars, hook, engine, statusPanel, checklist>>

\* TeamSearch 174, 187: a region button
SelectRegion(code) ==
    /\ teamSearch.rendered
    /\ teamSearch.selectedRegion # code
    /\ teamSearch' = [teamSearch EXCEPT !.selectedRegion = code]
    /\ UNCHANGED <<pageVars, netVars, viewVars, hook, engine, statusPanel, checklist>>

\* TeamSearch 208-217, 56-59: a click on a displayed team
ClickTeam(i) ==
    /\ teamSearch.rendered
    /\ ~teamSearch.isLoadingTeams
    /\ ~teamSearch.isLoading
    /\ LET shown == displayedTeams(teamSearch.popularTeams, teamSearch.selectedRegion)
       IN  /\ i \in DOMAIN shown
           /\ teamSearch' = [teamSearch EXCEPT !.isLoading = TRUE,
                                               !.pushed = Some(shown[i].name)]
    /\ UNCHANGED <<pageVars, netVars, viewVars, hook, engine, statusPanel, checklist>>

InitTeams ==
    /\ teamName = "Cloud9"
    /\ report = Null
    /\ loading = TRUE
    /\ error = NoError
    /\ apiStatus = "checking"
    /\ useLiveData = TRUE
    /\ inflight = {}
    /\ loadCount = 0
    /\ healthInflight = 0
    /\ mapSection = NotRendered
    /\ trendSection = NotRendered
    /\ prevTrendSection = NotRendered
    /\ detailSection = NotRendered
    /\ insightSection = NotRendered
    /\ hook = NotRendered
    /\ engine = Idle
    /\ statusPanel = NotRendered
    /\ teamSearch = TeamSearch
    /\ checklist = NotRendered

NextTeams ==
    \/ TeamSearchMount
    \/ \E response \in PopularTeamsResponses : LoadPopularTeamsSettles(response)
    \/ \E code \in RegionCodes \cup {"all"} : SelectRegion(code)
    \/ \E i \in 1..Len(FallbackTeams.teams) : ClickTeam(i)

SpecTeams == InitTeams /\ [][NextTeams]_vars

\* C28: fetchPopularTeams never rejects; for a response that is not OK and
\* for a network failure alike it resolves to the built-in list with source
\* "fallback"; once the load has settled, isLoadingTeams is false
C28_PopularTeamsNeverRejects ==
    (teamSearch.rendered /\ teamSearch.load.phase = "settled") =>
       LET outcome == fetchPopularTeams(teamSearch.load.response) IN
       /\ outcome.resolved
       /\ teamSearch.load.response.kind \in {"http", "network"} =>
             /\ outcome.value = FallbackTeams
             /\ teamSearch.popularTeams = FallbackTeams.teams
             /\ teamSearch.dataSource = "fallback"
       /\ ~teamSearch.isLoadingTeams

-----------------------------------------------------------------------------
(* ChecklistBlock (components/ui/ChecklistBlock.tsx) *)

ItemTexts == <<"Force early rounds", "Ban Ascent", "Punish eco rounds", "Trade the entry">>

\* mutant: a click only ever checks an item
toggleItemCheckOnly(checkedItems, index) == checkedItems \cup {index}

\* ChecklistBlock 58-66: the set handed to setCheckedItems
toggleItem(checkedItems, index) ==
    IF index \in checkedItems THEN checkedItems \ {index}
    ELSE checkedItems \cup {index}

\* ChecklistBlock 52: the text of Copy All, line by line
CopyAllText(items) == [k \in DOMAIN items |-> [number |-> k, item |-> items[k]]]

\* ChecklistBlock 25-26: the state of the first render for the given items.
\* Indices count from 0.  `writing` are the clipboard writes awaited,
\* `timers` the pending resets of the indicator, `clicks` and `toggles`
\* count the clicks and the calls of toggleItem, `lastToggle` is the index
\* of the last such call and the checked set before it
ChecklistBlock(items) ==
    [rendered |-> TRUE,
     items |-> items,
     copiedAll |-> FALSE,
     checkedItems |-> {},
     clipboard |-> Null,
     writing |-> 0,
     timers |-> 0,
     clicks |-> 0,
     toggles |-> 0,
     lastToggle |-> Null]

\* ChecklistBlock 125: a click on item `index`
ClickItem(index) ==
    /\ checklist.rendered
    /\ checklist.clicks < MaxClicks
    /\ index \in 0..(Len(checklist.items) - 1)
    /\ checklist' = [checklist EXCEPT
                       !.checkedItems = toggleItem(@, index),
                       !.clicks = @ + 1,
                       !.toggles = @ + 1,
                       !.lastToggle = Some([index |-> index,
                                            before |-> checklist.checkedItems])]
    /\ UNCHANGED <<pageVars, netVars, viewVars, hook, engine, statusPanel, teamSearch>>

\* ChecklistBlock 94, 51-53: Copy All up to its await
ClickCopyAll ==
    /\ checklist.rendered
    /\ checklist.clicks < MaxClicks
    /\ checklist' = [checklist EXCEPT !.clicks = @ + 1, !.writing = @ + 1]
    /\ UNCHANGED <<pageVars, netVars, viewVars, hook, engine, statusPanel, teamSearch>>

\* ChecklistBlock 53-55: writeText settles; when it rejects (no permission)
\* handleCopyAll ends there
ClipboardSettles(written) ==
    /\ checklist.rendered
    /\ checklist.writing > 0
    /\ checklist' =
         IF written
         THEN [checklist EXCEPT !.writing = @ - 1,
                                !.clipboard = Some(CopyAllText(checklist.items)),
                                !.copiedAll = TRUE,
                                !.timers = @ + 1]
         ELSE [checklist EXCEPT !.writing = @ - 1]
    /\ UNCHANGED <<pageVars, netVars, viewVars, hook, engine, statusPanel, teamSearch>>

\* ChecklistBlock 55: the timer resets the indicator
CopiedTimeout ==
    /\ checklist.rendered
    /\ checklist.timers > 0
    /\ checklist' = [checklist EXCEPT !.timers = @ - 1, !.copiedAll = FALSE]
    /\ UNCHANGED <<pageVars, netVars, viewVars, hook, engine, statusPanel, teamSearch>>

InitChecklist ==
    /\ teamName = "Cloud9"
    /\ report = Null
    /\ loading = TRUE
    /\ error = NoError
    /\ apiStatus = "checking"
    /\ useLiveData = TRUE
    /\ inflight = {}
    /\ loadCount = 0
    /\ healthInflight = 0
    /\ mapSection = NotRendered
    /\ trendSection = NotRendered
    /\ prevTrendSection = NotRendered
    /\ detailSection = NotRendered
    /\ insightSection = NotRendered
    /\ hook = NotRendered
    /\ engine = Idle
    /\ statusPanel = NotRendered
    /\ teamSearch = NotRendered
    /\ \E n \in 0..MaxItems : checklist = ChecklistBlock(SubSeq(ItemTexts, 1, n))

NextChecklist ==
    \/ \E index \in 0..(MaxItems - 1) : ClickItem(index)
    \/ ClickCopyAll
    \/ \E written \in BOOLEAN : ClipboardSettles(written)
    \/ CopiedTimeout

SpecChecklist == InitChecklist /\ [][NextChecklist]_vars

\* C29: toggleItem(i) flips the checked state of item i and of no other item;
\* toggling the item of the previous toggle again restores the checked set
\* of before; Copy All and the reset of the indicator leave the checked set
C29_ToggleFlipsOneItem ==
    [][IF checklist'.toggles # checklist.toggles
       THEN LET i == checklist'.lastToggle.value.index IN
            /\ i \in checklist'.checkedItems <=> i \notin checklist.checkedItems
            /\ \A j \in 0..(Len(checklist.items) - 1) :
                  j # i => (j \in checklist'.checkedItems <=> j \in checklist.checkedItems)
            /\ checklist'.checkedItems \subseteq 0..(Len(checklist.items) - 1)
            /\ (checklist.lastToggle # Null /\ checklist.lastToggle.value.index = i)
                  => checklist'.checkedItems = checklist.lastToggle.value.before
       ELSE checklist'.checkedItems = checklist.checkedItems]_vars

\* an item was checked, Copy All ran and its indicator was reset, the same
\* item was toggled again: it is unchecked, another item stayed checked
C29_Witness ==
    /\ checklist.rendered
    /\ checklist.toggles = 3
    /\ checklist.clipboard # Null
    /\ ~checklist.copiedAll /\ checklist.timers = 0
    /\ checklist.lastToggle = Some([index |-> 0, before |-> {0, 1}])
    /\ checklist.checkedItems = {1}

=============================================================================
